---- MODULE Spec2Model ----
(***************************************************************************)
(* Conversation store, checkpoint-as-items manager and execution pipeline  *)
(* of agent_framework_devui (_conversations.py, _executor.py).             *)
(***************************************************************************)
EXTENDS Integers, Sequences, FiniteSets, TLC

VARIABLES
    conversations,          \* InMemoryConversationStore._conversations (values)
    conv_keys,              \* insertion order of the keys of _conversations
    item_index,             \* InMemoryConversationStore._item_index
    fresh,                  \* number of uuid4() / AgentThread() objects made so far
    checkpoint_conv_cache,  \* CheckpointConversationManager._checkpoint_conv_cache, per manager
    last,                   \* the last operation called and what it returned
    ops,                    \* number of operations called so far
    saved,                  \* history: the checkpoints whose save returned, per entity
    removed,                \* history: the item ids a deleted conversation had, until it is created again
    tasks,                  \* concurrent callers of the manager: where each one is in its call
    exec,                   \* one execution request of AgentFrameworkExecutor and its stream
    thread_storage,         \* AgentFrameworkExecutor.thread_storage
    agent_threads,          \* AgentFrameworkExecutor.agent_threads (values)
    agent_keys              \* insertion order of the keys of agent_threads

registry_vars == <<thread_storage, agent_threads, agent_keys>>

-----------------------------------------------------------------------------
(* Bounds *)

MaxOps == 3

MaxManagerOps == 4

MaxTasks == 3

MaxUpdates == 2

MaxTraces == 2

MaxMixedOps == 3

MaxRegistryOps == 4

MaxTypes == 3

-----------------------------------------------------------------------------
(* Values *)

None == [type |-> "none"]

CONVERSATION_ITEM_TYPE_CHECKPOINT == "checkpoint"
CONVERSATION_TYPE_CHECKPOINT_CONTAINER == "checkpoint_container"

EmptyMap == [x \in {} |-> None]

Put(f, k, v) == [x \in (DOMAIN f) \cup {k} |-> IF x = k THEN v ELSE f[x]]

Del(f, k) == [x \in (DOMAIN f) \ {k} |-> f[x]]

Min(a, b) == IF a < b THEN a ELSE b

\* A reversal that leaves the sequence as it is
Reverse_keeps_order(s) == s

\* items[::-1]
Reverse(s) == [k \in 1..Len(s) |-> s[Len(s) + 1 - k]]

RECURSIVE Flatten(_)
Flatten(ss) == IF ss = <<>> THEN <<>> ELSE Head(ss) \o Flatten(Tail(ss))

\* uuid.uuid4().hex: a value no earlier call returned
uuid4(n) == "u" \o ToString(n)

\* AgentThread(): a new thread object with no message store yet
AgentThread(n) == [tid |-> n, messages |-> <<>>]

\* AgentThread.on_new_messages: appends to the thread's message store
on_new_messages(thread, msgs) == [thread EXCEPT !.messages = @ \o msgs]

\* datetime.fromisoformat(...).timestamp(): raises ValueError on a malformed string
IsoTimestamps == [x \in {"2025-01-01T00:00:00", "2025-01-02T00:00:00"} |->
                    IF x = "2025-01-01T00:00:00" THEN 1735689600 ELSE 1735776000]

fromisoformat(ts) ==
    IF ts \in DOMAIN IsoTimestamps
    THEN [ok |-> TRUE, value |-> IsoTimestamps[ts]]
    ELSE [ok |-> FALSE, error |-> "ValueError"]

\* WorkflowCheckpoint.to_dict / from_dict: field-wise conversion to and from a dict
to_dict(cp) ==
    [checkpoint_id |-> cp.checkpoint_id, workflow_id |-> cp.workflow_id,
     timestamp |-> cp.timestamp, shared_state |-> cp.shared_state, isdict |-> TRUE]

from_dict(d) ==
    [checkpoint_id |-> d.checkpoint_id, workflow_id |-> d.workflow_id,
     timestamp |-> d.timestamp, shared_state |-> d.shared_state]

Conversation(id, created_at, metadata) ==
    [id |-> id, object |-> "conversation", created_at |-> created_at, metadata |-> metadata]

Message(id, role, content) ==
    [id |-> id, type |-> "message", role |-> role, content |-> content, status |-> "completed"]

TextContent(text) == [type |-> "text", text |-> text]

Raise(S, err) == [S |-> S, r |-> [ok |-> FALSE, error |-> err]]

-----------------------------------------------------------------------------
(* InMemoryConversationStore.  S is the store: its _conversations (with    *)
(* their key order), its _item_index and the count of objects made.        *)

Store == [conversations |-> conversations, conv_keys |-> conv_keys,
          item_index |-> item_index, fresh |-> fresh]

\* create_conversation that keeps the index entry an existing id has
create_conversation_keeps_index(S, metadata, conversation_id) ==
    LET conv_id == IF conversation_id # "" THEN conversation_id
                   ELSE "conv_" \o uuid4(S.fresh)
        created_at == S.fresh
        conv_data == [id |-> conv_id, thread |-> AgentThread(S.fresh), metadata |-> metadata,
                      created_at |-> created_at, items |-> <<>>]
    IN  [S |-> [conversations |-> Put(S.conversations, conv_id, conv_data),
                conv_keys |-> IF conv_id \in DOMAIN S.conversations THEN S.conv_keys
                              ELSE Append(S.conv_keys, conv_id),
                item_index |-> IF conv_id \in DOMAIN S.item_index THEN S.item_index
                               ELSE Put(S.item_index, conv_id, EmptyMap),
                fresh |-> S.fresh + 1],
         r |-> [ok |-> TRUE, value |-> Conversation(conv_id, created_at, metadata)]]

create_conversation(S, metadata, conversation_id) ==
    LET conv_id == IF conversation_id # "" THEN conversation_id
                   ELSE "conv_" \o uuid4(S.fresh)
        created_at == S.fresh
        conv_data == [id |-> conv_id, thread |-> AgentThread(S.fresh), metadata |-> metadata,
                      created_at |-> created_at, items |-> <<>>]
    IN  [S |-> [conversations |-> Put(S.conversations, conv_id, conv_data),
                conv_keys |-> IF conv_id \in DOMAIN S.conversations THEN S.conv_keys
                              ELSE Append(S.conv_keys, conv_id),
                item_index |-> Put(S.item_index, conv_id, EmptyMap),
                fresh |-> S.fresh + 1],
         r |-> [ok |-> TRUE, value |-> Conversation(conv_id, created_at, metadata)]]

get_conversation(S, conversation_id) ==
    IF conversation_id \notin DOMAIN S.conversations THEN None
    ELSE LET conv_data == S.conversations[conversation_id]
         IN  Conversation(conv_data.id, conv_data.created_at, conv_data.metadata)

\* update_conversation that keeps the old keys the new metadata does not have
update_conversation_merges(S, conversation_id, metadata) ==
    IF conversation_id \notin DOMAIN S.conversations THEN Raise(S, "ValueError")
    ELSE LET conv_data == S.conversations[conversation_id]
             merged == metadata \cup {kv \in conv_data.metadata :
                                         \A new \in metadata : new[1] # kv[1]}
         IN  [S |-> [S EXCEPT !.conversations[conversation_id].metadata = merged],
              r |-> [ok |-> TRUE,
                     value |-> Conversation(conv_data.id, conv_data.created_at, merged)]]

update_conversation(S, conversation_id, metadata) ==
    IF conversation_id \notin DOMAIN S.conversations THEN Raise(S, "ValueError")
    ELSE LET conv_data == S.conversations[conversation_id]
         IN  [S |-> [S EXCEPT !.conversations[conversation_id].metadata = metadata],
              r |-> [ok |-> TRUE,
                     value |-> Conversation(conv_data.id, conv_data.created_at, metadata)]]

\* delete_conversation without the cleanup of the item index
delete_conversation_keeps_index(S, conversation_id) ==
    IF conversation_id \notin DOMAIN S.conversations THEN Raise(S, "ValueError")
    ELSE [S |-> [S EXCEPT !.conversations = Del(@, conversation_id),
                          !.conv_keys = SelectSeq(@, LAMBDA k : k # conversation_id)],
          r |-> [ok |-> TRUE,
                 value |-> [id |-> conversation_id, object |-> "conversation.deleted",
                            deleted |-> TRUE]]]

delete_conversation(S, conversation_id) ==
    IF conversation_id \notin DOMAIN S.conversations THEN Raise(S, "ValueError")
    ELSE [S |-> [S EXCEPT !.conversations = Del(@, conversation_id),
                          !.conv_keys = SelectSeq(@, LAMBDA k : k # conversation_id),
                          !.item_index = Del(@, conversation_id)],
          r |-> [ok |-> TRUE,
                 value |-> [id |-> conversation_id, object |-> "conversation.deleted",
                            deleted |-> TRUE]]]

\* item.get("role", "user")
ItemRole(item) == IF "role" \in DOMAIN item THEN item.role ELSE "user"

\* The text of the last content part instead of the first
ItemText_last_part(item) ==
    LET content == IF "content" \in DOMAIN item THEN item.content ELSE <<>>
    IN  IF content = <<>> THEN ""
        ELSE IF "text" \in DOMAIN content[Len(content)] THEN content[Len(content)].text ELSE ""

\* content[0].get("text", "") if content else ""
ItemText(item) ==
    LET content == IF "content" \in DOMAIN item THEN item.content ELSE <<>>
    IN  IF content = <<>> THEN ""
        ELSE IF "text" \in DOMAIN content[1] THEN content[1].text ELSE ""

ChatMessage(role, contents) == [role |-> role, contents |-> contents]

\* add_items that leaves the item index as it is
add_items_resume_unindexed(S, conversation_id, conv_tid, items) ==
    LET chat_messages == [k \in 1..Len(items) |->
                            ChatMessage(ItemRole(items[k]),
                                        <<[type |-> "text", text |-> ItemText(items[k])]>>)]
        conv_items == [k \in 1..Len(chat_messages) |->
                         Message("item_" \o uuid4(S.fresh + k - 1),
                                 chat_messages[k].role,
                                 [j \in 1..Len(chat_messages[k].contents) |->
                                     TextContent(chat_messages[k].contents[j].text)])]
    IN  [S |-> [S EXCEPT !.conversations[conversation_id].thread =
                             on_new_messages(@, chat_messages),
                         !.conversations[conversation_id].items = @ \o conv_items,
                         !.fresh = @ + Len(items)],
         r |-> [ok |-> TRUE, value |-> conv_items]]

\* add_items from the return of `await thread.on_new_messages(chat_messages)` on:
\* conv_data is the dict looked up before the await, known by the thread made with
\* it; it is the stored one unless the conversation was deleted or created again
add_items_resume(S, conversation_id, conv_tid, items) ==
    LET stored == /\ conversation_id \in DOMAIN S.conversations
                  /\ S.conversations[conversation_id].thread.tid = conv_tid
        chat_messages == [k \in 1..Len(items) |->
                            ChatMessage(ItemRole(items[k]),
                                        <<[type |-> "text", text |-> ItemText(items[k])]>>)]
        conv_items == [k \in 1..Len(chat_messages) |->
                         Message("item_" \o uuid4(S.fresh + k - 1),
                                 chat_messages[k].role,
                                 [j \in 1..Len(chat_messages[k].contents) |->
                                     TextContent(chat_messages[k].contents[j].text)])]
        index == IF conversation_id \in DOMAIN S.item_index
                 THEN S.item_index[conversation_id] ELSE EmptyMap
        new_index == [x \in (DOMAIN index) \cup {conv_items[k].id : k \in 1..Len(conv_items)} |->
                        IF \E k \in 1..Len(conv_items) : conv_items[k].id = x
                        THEN conv_items[CHOOSE k \in 1..Len(conv_items) : conv_items[k].id = x]
                        ELSE index[x]]
    IN  [S |-> [S EXCEPT !.conversations =
                             IF stored
                             THEN [@ EXCEPT ![conversation_id].thread =
                                                on_new_messages(@, chat_messages),
                                            ![conversation_id].items = @ \o conv_items]
                             ELSE @,
                         !.item_index = Put(@, conversation_id, new_index),
                         !.fresh = @ + Len(items)],
         r |-> [ok |-> TRUE, value |-> conv_items]]

\* add_items that returns nothing for a conversation it does not find
add_items_ignores_absent(S, conversation_id, items) ==
    IF conversation_id \notin DOMAIN S.conversations
    THEN [S |-> S, r |-> [ok |-> TRUE, value |-> <<>>]]
    ELSE add_items_resume(S, conversation_id, S.conversations[conversation_id].thread.tid, items)

add_items(S, conversation_id, items) ==
    IF conversation_id \notin DOMAIN S.conversations THEN Raise(S, "ValueError")
    ELSE add_items_resume(S, conversation_id, S.conversations[conversation_id].thread.tid, items)

\* add_checkpoint_item that keeps the index entry an id already has
add_checkpoint_item_keeps_first(S, conversation_id, checkpoint) ==
    IF conversation_id \notin DOMAIN S.conversations THEN Raise(S, "ValueError")
    ELSE IF ~fromisoformat(checkpoint.timestamp).ok THEN Raise(S, "ValueError")
    ELSE LET item_dict == [id |-> checkpoint.checkpoint_id,
                           type |-> CONVERSATION_ITEM_TYPE_CHECKPOINT,
                           object |-> "conversation.item.checkpoint",
                           created_at |-> fromisoformat(checkpoint.timestamp).value,
                           checkpoint_data |-> to_dict(checkpoint)]
             index == IF conversation_id \in DOMAIN S.item_index
                      THEN S.item_index[conversation_id] ELSE EmptyMap
         IN  [S |-> [S EXCEPT !.conversations[conversation_id].items = Append(@, item_dict),
                              !.item_index = Put(@, conversation_id,
                                                 IF checkpoint.checkpoint_id \in DOMAIN index
                                                 THEN index
                                                 ELSE Put(index, checkpoint.checkpoint_id,
                                                          item_dict))],
              r |-> [ok |-> TRUE, value |-> item_dict]]

add_checkpoint_item(S, conversation_id, checkpoint) ==
    IF conversation_id \notin DOMAIN S.conversations THEN Raise(S, "ValueError")
    ELSE IF ~fromisoformat(checkpoint.timestamp).ok THEN Raise(S, "ValueError")
    ELSE LET item_dict == [id |-> checkpoint.checkpoint_id,
                           type |-> CONVERSATION_ITEM_TYPE_CHECKPOINT,
                           object |-> "conversation.item.checkpoint",
                           created_at |-> fromisoformat(checkpoint.timestamp).value,
                           checkpoint_data |-> to_dict(checkpoint)]
             index == IF conversation_id \in DOMAIN S.item_index
                      THEN S.item_index[conversation_id] ELSE EmptyMap
         IN  [S |-> [S EXCEPT !.conversations[conversation_id].items = Append(@, item_dict),
                              !.item_index = Put(@, conversation_id,
                                                 Put(index, checkpoint.checkpoint_id, item_dict))],
              r |-> [ok |-> TRUE, value |-> item_dict]]

\* media_type.startswith("image/"), over the media types the engine messages carry
startswith_image(media_type) == media_type \in {"image/png", "image/jpeg"}

\* One content part of a thread message shown in a Message item
DisplayPart(content) ==
    IF content.type = "text" THEN TextContent(content.text)
    ELSE IF content.media_type # "" /\ startswith_image(content.media_type)
         THEN [type |-> "input_image", image_url |-> content.uri, detail |-> "auto"]
         ELSE [type |-> "input_file", file_url |-> content.uri,
               filename |-> IF content.media_type = "application/pdf"
                            THEN "document.pdf" ELSE ""]

\* A conversion that makes a Message item of every thread message
MessageItems_always_message(msg, i) ==
    LET item_id == "item_" \o ToString(i)
        shown == SelectSeq(msg.contents, LAMBDA ct : ct.type \in {"text", "data"})
        message_contents == [k \in 1..Len(shown) |-> DisplayPart(shown[k])]
        calls == SelectSeq(msg.contents,
                           LAMBDA ct : ct.type = "function_call" /\ ct.call_id # "" /\ ct.name # "")
        function_calls == [k \in 1..Len(calls) |->
                             [id |-> item_id \o "_call_" \o calls[k].call_id,
                              call_id |-> calls[k].call_id, name |-> calls[k].name,
                              arguments |-> calls[k].arguments,
                              type |-> "function_call", status |-> "completed"]]
        results == SelectSeq(msg.contents,
                             LAMBDA ct : ct.type = "function_result" /\ ct.call_id # "")
        function_results == [k \in 1..Len(results) |->
                               [id |-> item_id \o "_result_" \o results[k].call_id,
                                call_id |-> results[k].call_id, output |-> results[k].output,
                                type |-> "function_call_output", status |-> "completed"]]
    IN  <<Message(item_id, msg.role, message_contents)>> \o function_calls \o function_results

\* The items list_items derives from the thread message at position i
MessageItems(msg, i) ==
    LET item_id == "item_" \o ToString(i)
        shown == SelectSeq(msg.contents, LAMBDA ct : ct.type \in {"text", "data"})
        message_contents == [k \in 1..Len(shown) |-> DisplayPart(shown[k])]
        calls == SelectSeq(msg.contents,
                           LAMBDA ct : ct.type = "function_call" /\ ct.call_id # "" /\ ct.name # "")
        function_calls == [k \in 1..Len(calls) |->
                             [id |-> item_id \o "_call_" \o calls[k].call_id,
                              call_id |-> calls[k].call_id, name |-> calls[k].name,
                              arguments |-> calls[k].arguments,
                              type |-> "function_call", status |-> "completed"]]
        results == SelectSeq(msg.contents,
                             LAMBDA ct : ct.type = "function_result" /\ ct.call_id # "")
        function_results == [k \in 1..Len(results) |->
                               [id |-> item_id \o "_result_" \o results[k].call_id,
                                call_id |-> results[k].call_id, output |-> results[k].output,
                                type |-> "function_call_output", status |-> "completed"]]
    IN  (IF message_contents # <<>> THEN <<Message(item_id, msg.role, message_contents)>>
         ELSE <<>>)
        \o function_calls \o function_results

ThreadItems(af_messages) ==
    Flatten([k \in 1..Len(af_messages) |-> MessageItems(af_messages[k], k - 1)])

\* isinstance(stored_item, dict) and stored_item.get("type") == "checkpoint"
IsCheckpointDict(item) == item.type = CONVERSATION_ITEM_TYPE_CHECKPOINT

\* The item sequence list_items builds before pagination
AllItems(S, conversation_id) ==
    LET conv_data == S.conversations[conversation_id]
    IN  ThreadItems(conv_data.thread.messages) \o SelectSeq(conv_data.items, IsCheckpointDict)

\* The cursor loop: the first position whose item is a plain dict (reading
\* item.id raises AttributeError there) or whose id equals the cursor; 0 if none
CursorScan(items, after) ==
    LET hits == {k \in 1..Len(items) : IsCheckpointDict(items[k]) \/ items[k].id = after}
    IN  IF hits = {} THEN 0 ELSE CHOOSE k \in hits : \A j \in hits : k <= j

list_items(S, conversation_id, limit, after, order) ==
    IF conversation_id \notin DOMAIN S.conversations THEN [ok |-> FALSE, error |-> "ValueError"]
    ELSE LET all == AllItems(S, conversation_id)
             items == IF order = "desc" THEN Reverse(all) ELSE all
             hit == IF after # "" THEN CursorScan(items, after) ELSE 0
         IN  IF hit > 0 /\ IsCheckpointDict(items[hit])
             THEN [ok |-> FALSE, error |-> "AttributeError"]
             ELSE LET start_idx == hit
                  IN  [ok |-> TRUE,
                       items |-> SubSeq(items, start_idx + 1, Min(start_idx + limit, Len(items))),
                       has_more |-> Len(items) > start_idx + limit]

get_item(S, conversation_id, item_id) ==
    IF conversation_id \notin DOMAIN S.item_index THEN None
    ELSE LET conv_items == S.item_index[conversation_id]
         IN  IF item_id \in DOMAIN conv_items THEN conv_items[item_id] ELSE None

\* get_thread that hands out a new thread object on every call
get_thread_new_object(S, conversation_id) ==
    IF conversation_id \in DOMAIN S.conversations
    THEN AgentThread(S.fresh) ELSE None

get_thread(S, conversation_id) ==
    IF conversation_id \in DOMAIN S.conversations
    THEN S.conversations[conversation_id].thread ELSE None

\* list_conversations_by_metadata that looks at the keys only
list_conversations_by_metadata_keys_only(S, metadata_filter) ==
    LET keys == SelectSeq(S.conv_keys,
                          LAMBDA k : \A f \in metadata_filter :
                                        \E kv \in S.conversations[k].metadata : kv[1] = f[1])
    IN  [k \in 1..Len(keys) |->
            Conversation(S.conversations[keys[k]].id, S.conversations[keys[k]].created_at,
                         S.conversations[keys[k]].metadata)]

\* metadata is a dict, held as its set of <<key, value>> pairs
list_conversations_by_metadata(S, metadata_filter) ==
    LET keys == SelectSeq(S.conv_keys,
                          LAMBDA k : metadata_filter \subseteq S.conversations[k].metadata)
    IN  [k \in 1..Len(keys) |->
            Conversation(S.conversations[keys[k]].id, S.conversations[keys[k]].created_at,
                         S.conversations[keys[k]].metadata)]

-----------------------------------------------------------------------------
(* CheckpointConversationManager.  cache is its _checkpoint_conv_cache.    *)

\* A container filter that leaves the entity out
ContainerFilter_type_only(entity_id) ==
    {<<"type", CONVERSATION_TYPE_CHECKPOINT_CONTAINER>>}

ContainerFilter(entity_id) ==
    {<<"entity_id", entity_id>>, <<"type", CONVERSATION_TYPE_CHECKPOINT_CONTAINER>>}

ContainerMetadata(entity_id) ==
    ContainerFilter(entity_id) \cup {<<"name", "Checkpoints for " \o entity_id>>}

\* A container id that leaves the entity out
ContainerId_shared(entity_id) == "checkpoints_"

ContainerId(entity_id) == "checkpoints_" \o entity_id

\* get_or_create_checkpoint_conversation without the cache and metadata checks
get_or_create_checkpoint_conversation_always_creates(S, cache, entity_id) ==
    LET made == create_conversation(S, ContainerMetadata(entity_id), ContainerId(entity_id))
    IN  [S |-> made.S, cache |-> Put(cache, entity_id, made.r.value.id), r |-> made.r.value.id]

get_or_create_checkpoint_conversation(S, cache, entity_id) ==
    IF entity_id \in DOMAIN cache
    THEN [S |-> S, cache |-> cache, r |-> cache[entity_id]]
    ELSE LET found == list_conversations_by_metadata(S, ContainerFilter(entity_id))
         IN  IF found # <<>>
             THEN [S |-> S, cache |-> Put(cache, entity_id, found[1].id), r |-> found[1].id]
             ELSE LET made == create_conversation(S, ContainerMetadata(entity_id),
                                                  ContainerId(entity_id))
                  IN  [S |-> made.S, cache |-> Put(cache, entity_id, made.r.value.id),
                       r |-> made.r.value.id]

\* save_checkpoint that also records the checkpoint in the container's thread
save_checkpoint_to_with_message(S, conv_id, checkpoint) ==
    LET added == add_checkpoint_item(S, conv_id, checkpoint)
    IN  [S |-> IF added.r.ok
               THEN [added.S EXCEPT !.conversations[conv_id].thread =
                         on_new_messages(@, <<ChatMessage("system",
                                                          <<[type |-> "text",
                                                             text |-> checkpoint.checkpoint_id]>>)>>)]
               ELSE added.S,
         r |-> IF added.r.ok THEN [ok |-> TRUE, value |-> checkpoint.checkpoint_id]
               ELSE added.r]

\* save_checkpoint after its container is resolved
save_checkpoint_to(S, conv_id, checkpoint) ==
    LET added == add_checkpoint_item(S, conv_id, checkpoint)
    IN  [S |-> added.S,
         r |-> IF added.r.ok THEN [ok |-> TRUE, value |-> checkpoint.checkpoint_id]
               ELSE added.r]

save_checkpoint(S, cache, entity_id, checkpoint) ==
    LET got == get_or_create_checkpoint_conversation(S, cache, entity_id)
        done == save_checkpoint_to(got.S, got.r, checkpoint)
    IN  [S |-> done.S, cache |-> got.cache, r |-> done.r]

\* load_checkpoint that hands out whatever item the id has
load_checkpoint_from_any_item(S, conv_id, checkpoint_id) ==
    LET item == get_item(S, conv_id, checkpoint_id)
    IN  IF item = None THEN None
        ELSE IF IsCheckpointDict(item) /\ item.checkpoint_data.isdict
             THEN from_dict(item.checkpoint_data)
             ELSE item

\* load_checkpoint after its container is resolved
load_checkpoint_from(S, conv_id, checkpoint_id) ==
    LET item == get_item(S, conv_id, checkpoint_id)
    IN  IF item = None THEN None
        ELSE IF IsCheckpointDict(item) /\ item.checkpoint_data.isdict
             THEN from_dict(item.checkpoint_data)
             ELSE None

load_checkpoint(S, cache, entity_id, checkpoint_id) ==
    LET got == get_or_create_checkpoint_conversation(S, cache, entity_id)
    IN  [S |-> got.S, cache |-> got.cache,
         r |-> load_checkpoint_from(got.S, got.r, checkpoint_id)]

\* list_checkpoints that ignores workflow_id
list_checkpoints_from_unfiltered(S, conv_id, workflow_id) ==
    LET listed == list_items(S, conv_id, 1000, "", "asc")
        dicts == SelectSeq(listed.items,
                           LAMBDA it : IsCheckpointDict(it) /\ it.checkpoint_data.isdict)
        checkpoints == [k \in 1..Len(dicts) |-> from_dict(dicts[k].checkpoint_data)]
    IN  IF ~listed.ok THEN listed ELSE [ok |-> TRUE, value |-> checkpoints]

\* list_checkpoints after its container is resolved
list_checkpoints_from(S, conv_id, workflow_id) ==
    LET listed == list_items(S, conv_id, 1000, "", "asc")
        dicts == SelectSeq(listed.items,
                           LAMBDA it : IsCheckpointDict(it) /\ it.checkpoint_data.isdict)
        checkpoints == [k \in 1..Len(dicts) |-> from_dict(dicts[k].checkpoint_data)]
    IN  IF ~listed.ok THEN listed
        ELSE [ok |-> TRUE,
              value |-> IF workflow_id # ""
                        THEN SelectSeq(checkpoints, LAMBDA cp : cp.workflow_id = workflow_id)
                        ELSE checkpoints]

list_checkpoints(S, cache, entity_id, workflow_id) ==
    LET got == get_or_create_checkpoint_conversation(S, cache, entity_id)
    IN  [S |-> got.S, cache |-> got.cache,
         r |-> list_checkpoints_from(got.S, got.r, workflow_id)]

-----------------------------------------------------------------------------
(* Inputs *)

Entities == {"wf1", "wf2"}

Managers == {"m1", "m2"}

Tasks == 1..MaxTasks

ExplicitIds == {"conv_A"}

MetadataArgs == {{}, {<<"agent_id", "a1">>}, {<<"agent_id", "a2">>, <<"topic", "t">>}}

MetadataFilters == MetadataArgs \cup {{<<"agent_id", "a2">>}, {<<"topic", "t">>}}

RawItemLists ==
    { <<[role |-> "user", content |-> <<[text |-> "hello"]>>]>>,
      <<[role |-> "assistant", content |-> <<[text |-> "hi"], [text |-> "more"]>>],
        [content |-> <<>>]>> }

\* Messages the engine appends to a conversation's thread while it runs with it
EngineMessages ==
    { ChatMessage("assistant",
                  <<[type |-> "text", text |-> "calling"],
                    [type |-> "function_call", call_id |-> "c1", name |-> "f",
                     arguments |-> "{}"]>>),
      ChatMessage("tool",
                  <<[type |-> "function_result", call_id |-> "c1", output |-> "42"]>>),
      ChatMessage("user",
                  <<[type |-> "data", uri |-> "data:image/png;base64,AA",
                     media_type |-> "image/png"],
                    [type |-> "data", uri |-> "data:application/pdf;base64,BB",
                     media_type |-> "application/pdf"]>>),
      ChatMessage("assistant",
                  <<[type |-> "function_call", call_id |-> "", name |-> "f",
                     arguments |-> "{}"],
                    [type |-> "function_call", call_id |-> "c2", name |-> "",
                     arguments |-> "{}"],
                    [type |-> "function_result", call_id |-> "", output |-> "x"],
                    [type |-> "usage"]>>),
      ChatMessage("tool",
                  <<[type |-> "function_result", call_id |-> "c3", output |-> "7"],
                    [type |-> "function_call", call_id |-> "c3", name |-> "g",
                     arguments |-> "{}"],
                    [type |-> "data", uri |-> "file:///x", media_type |-> ""]>>) }

WorkflowCheckpoint(checkpoint_id, workflow_id, timestamp, shared_state) ==
    [checkpoint_id |-> checkpoint_id, workflow_id |-> workflow_id,
     timestamp |-> timestamp, shared_state |-> shared_state]

Checkpoints ==
    { WorkflowCheckpoint("cp1", "wf1", "2025-01-01T00:00:00", {<<"k", "v">>}),
      WorkflowCheckpoint("cp1", "wf1", "2025-01-02T00:00:00", {<<"k", "w">>}),
      WorkflowCheckpoint("cp2", "wf2", "2025-01-01T00:00:00", {<<"k", "v">>}),
      WorkflowCheckpoint("cp3", "wf1", "yesterday", {}) }

CheckpointIds == {cp.checkpoint_id : cp \in Checkpoints}

\* Conversation ids an operation may be called with: the existing ones and the explicit ones
ConvArgs == (DOMAIN conversations) \cup ExplicitIds

\* The item ids of conversation c that get_item or list_items answer for
ValidItemIds(S, c) ==
    (IF c \in DOMAIN S.item_index THEN DOMAIN S.item_index[c] ELSE {})
    \cup (IF c \in DOMAIN S.conversations
          THEN LET all == AllItems(S, c) IN {all[k].id : k \in 1..Len(all)} ELSE {})

\* Item ids an operation may be called with
ItemIdArgs(S, c) == ValidItemIds(S, c) \cup {"item_0"}

Limits == 1..2

-----------------------------------------------------------------------------
(* AgentFrameworkExecutor: one execution request.  The request's stream is  *)
(* a chain of generators; queue holds the raw events the innermost running *)
(* generator is about to yield, pc what runs once they are consumed.       *)

\* EntityDiscovery: the type of each entity it knows
EntityTypes == [x \in {"agent1", "workflow1", "tool1"} |->
                  IF x = "agent1" THEN "agent" ELSE IF x = "workflow1" THEN "workflow" ELSE "tool"]

RequestEntityIds == (DOMAIN EntityTypes) \cup {"ghost", ""}

ExecIdle ==
    [pc |-> "Idle", api |-> "", entity_id |-> "", type |-> "", out |-> <<>>, queue |-> <<>>,
     pending |-> <<>>, traces |-> 0, updates |-> 0, scope |-> "none", runs |-> 0,
     raised |-> {}, arrived |-> <<>>, abandoned |-> FALSE]

\* An iteration that yields the update before the pending trace events
IterationYields_update_first(batch, update) == <<update>> \o batch

\* The yields of one iteration of the driver's loop over run_stream: the trace
\* events pending at that moment, then the update
IterationYields(batch, update) == batch \o <<update>>

\* A flush after the driver that yields nothing
FinalFlushYields_nothing(batch) == <<>>

\* The yields of the flush after the driver: each trace event still pending
FinalFlushYields(batch) == batch

\* trace_collector.get_pending_events() called for update u (0: the flush after the
\* driver): what has accumulated since the last call, in arrival order
get_pending_events(pending, u) == [k \in 1..Len(pending) |-> [pending[k] EXCEPT !.for = u]]

DriverErrorEvent(x, site) ==
    [type |-> "error",
     message |-> (IF x.type = "agent" THEN "Agent execution error: "
                  ELSE "Workflow execution error: ") \o site]

\* An error event that leaves the entity out
EntityErrorEvent_no_entity_id(x, site) ==
    [type |-> "error", message |-> site]

EntityErrorEvent(x, site) ==
    [type |-> "error", message |-> site, entity_id |-> x.entity_id]

\* MessageMapper.convert_event: the wire events made from one raw event
convert_event(raw_event) == <<[type |-> "openai", of |-> raw_event]>>

\* execute_streaming without its try block
Catcher_no_outer_try(api, site) ==
    IF site \in {"convert", "engine", "flush"} THEN "_execute_driver"
    ELSE IF site \in {"lookup", "object", "type", "final_flush"} THEN "execute_entity"
    ELSE "none"

\* The try block whose except clause an exception raised at site reaches
Catcher(api, site) ==
    IF site \in {"convert", "engine", "flush"} THEN "_execute_driver"
    ELSE IF site \in {"lookup", "object", "type", "final_flush"} THEN "execute_entity"
    ELSE IF api = "execute_streaming" THEN "execute_streaming"
    ELSE "none"

\* An engine failure that sends the driver back to call run_stream again
Throw_retries(x, site) ==
    LET y == [x EXCEPT !.raised = @ \cup {site}]
        c == Catcher(x.api, site)
    IN  IF site = "engine" /\ x.runs < 2
        THEN [y EXCEPT !.queue = <<>>, !.pc = "Starting"]
        ELSE IF c = "_execute_driver"
        THEN [y EXCEPT !.queue = <<DriverErrorEvent(x, site)>>, !.pc = "Flushing"]
        ELSE IF c = "execute_entity"
        THEN [y EXCEPT !.queue = <<EntityErrorEvent(x, site)>>, !.pc = "Closing",
                       !.scope = IF @ = "held" THEN "released" ELSE @]
        ELSE IF c = "execute_streaming"
        THEN [y EXCEPT !.queue = <<>>, !.pc = "Done"]
        ELSE [y EXCEPT !.queue = <<>>, !.pc = "Raised"]

\* The request after an exception is raised at site
Throw(x, site) ==
    LET y == [x EXCEPT !.raised = @ \cup {site}]
        c == Catcher(x.api, site)
    IN  IF c = "_execute_driver"
        THEN [y EXCEPT !.queue = <<DriverErrorEvent(x, site)>>, !.pc = "Flushing"]
        ELSE IF c = "execute_entity"
        THEN [y EXCEPT !.queue = <<EntityErrorEvent(x, site)>>, !.pc = "Closing",
                       !.scope = IF @ = "held" THEN "released" ELSE @]
        ELSE IF c = "execute_streaming"
        THEN [y EXCEPT !.queue = <<>>, !.pc = "Done"]
        ELSE [y EXCEPT !.queue = <<>>, !.pc = "Raised"]

ExecStep(x) ==
    /\ exec' = x
    /\ UNCHANGED <<conversations, conv_keys, item_index, fresh, checkpoint_conv_cache,
                   last, ops, saved, removed, tasks, registry_vars>>

\* A caller starts execute_streaming(request) or execute_entity(entity_id, request)
ExecRequest ==
    /\ exec.pc = "Idle"
    /\ \E api \in {"execute_streaming", "execute_entity"}, entity_id \in RequestEntityIds :
          ExecStep([exec EXCEPT !.api = api, !.entity_id = entity_id,
                                !.pc = IF api = "execute_streaming" THEN "Validating"
                                       ELSE "Resolving"])

\* execute_streaming: the checks before it iterates execute_entity
ExecValidate ==
    /\ exec.pc = "Validating"
    /\ ExecStep(IF exec.entity_id = "" \/ exec.entity_id \notin DOMAIN EntityTypes
                THEN [exec EXCEPT !.pc = "Done"]
                ELSE [exec EXCEPT !.pc = "Resolving"])

\* execute_entity up to the dispatch on the entity type
ExecResolve ==
    /\ exec.pc = "Resolving"
    /\ \E has_object \in BOOLEAN :
          ExecStep(IF exec.entity_id \notin DOMAIN EntityTypes THEN Throw(exec, "lookup")
                   ELSE IF ~has_object THEN Throw(exec, "object")
                   ELSE LET x == [exec EXCEPT !.type = EntityTypes[exec.entity_id],
                                              !.scope = "held"]
                        IN  IF x.type \in {"agent", "workflow"}
                            THEN [x EXCEPT !.pc = "Starting"]
                            ELSE Throw(x, "type"))

\* _execute_agent / _execute_workflow up to the call of run_stream
ExecStart ==
    /\ exec.pc = "Starting"
    /\ \E converts \in BOOLEAN :
          ExecStep(IF ~converts THEN Throw(exec, "convert")
                   ELSE [exec EXCEPT !.runs = @ + 1, !.pc = "Streaming"])

\* The engine yields its next update; the driver drains the trace collector
ExecEngineUpdate ==
    /\ exec.pc = "Streaming"
    /\ exec.queue = <<>>
    /\ exec.updates < MaxUpdates
    /\ \E flushes \in BOOLEAN :
          LET u == exec.updates + 1
              x == [exec EXCEPT !.updates = u]
          IN  ExecStep(IF ~flushes THEN Throw(x, "flush")
                       ELSE [x EXCEPT !.queue = IterationYields(
                                                    get_pending_events(exec.pending, u),
                                                    [type |-> "update", n |-> u]),
                                      !.pending = <<>>])

\* The engine raises instead of yielding an update
ExecEngineRaise ==
    /\ exec.pc = "Streaming"
    /\ exec.queue = <<>>
    /\ ExecStep(Throw(exec, "engine"))

\* The engine's stream ends
ExecEngineEnd ==
    /\ exec.pc = "Streaming"
    /\ exec.queue = <<>>
    /\ ExecStep([exec EXCEPT !.pc = "Flushing"])

\* execute_entity after the driver: the remaining trace events
ExecFinalFlush ==
    /\ exec.pc = "Flushing"
    /\ exec.queue = <<>>
    /\ \E flushes \in BOOLEAN :
          ExecStep(IF ~flushes THEN Throw(exec, "final_flush")
                   ELSE [exec EXCEPT !.queue = FinalFlushYields(
                                                    get_pending_events(exec.pending, 0)),
                                     !.pending = <<>>, !.pc = "Closing"])

\* execute_entity returns: the with block is left, the stream ends
ExecClose ==
    /\ exec.pc = "Closing"
    /\ exec.queue = <<>>
    /\ ExecStep([exec EXCEPT !.pc = "Done",
                             !.scope = IF @ = "held" THEN "released" ELSE @])

\* The consumer takes the next raw event; execute_streaming passes it through the mapper
ExecYield ==
    /\ exec.queue # <<>>
    /\ \E maps \in BOOLEAN :
          LET x == [exec EXCEPT !.queue = Tail(@)]
          IN  ExecStep(IF exec.api = "execute_entity"
                       THEN [x EXCEPT !.out = Append(@, Head(exec.queue))]
                       ELSE IF maps
                       THEN [x EXCEPT !.out = @ \o convert_event(Head(exec.queue))]
                       ELSE Throw(x, "mapper"))

\* A trace event reaches the collector of the open scope
ExecTraceArrive ==
    /\ exec.scope = "held"
    /\ exec.pc \in {"Starting", "Streaming", "Flushing", "Closing"}
    /\ exec.traces < MaxTraces
    /\ ExecStep([exec EXCEPT !.traces = @ + 1,
                             !.arrived = Append(@, exec.pc),
                             !.pending = Append(@, [type |-> "trace", n |-> exec.traces + 1,
                                                    for |-> 0])])

\* The consumer closes the stream it was reading before its end: GeneratorExit is
\* raised at the yield the closed generator is suspended at.  Closing execute_entity
\* leaves its with block; closing execute_streaming leaves the execute_entity
\* generator it was iterating suspended where it is
ExecAbandon ==
    /\ exec.out # <<>>
    /\ exec.pc \notin {"Done", "Raised"}
    /\ ExecStep([exec EXCEPT !.abandoned = TRUE, !.queue = <<>>, !.pc = "Done",
                             !.scope = IF @ = "held" /\ exec.api = "execute_entity"
                                       THEN "released" ELSE @])

\* The runtime finalizes the execute_entity generator that execute_streaming left
\* suspended: its with block is left then
ExecFinalize ==
    /\ exec.pc = "Done"
    /\ exec.scope = "held"
    /\ ExecStep([exec EXCEPT !.scope = "released"])

ExecNext ==
    \/ ExecRequest
    \/ ExecValidate
    \/ ExecResolve
    \/ ExecStart
    \/ ExecEngineUpdate
    \/ ExecEngineRaise
    \/ ExecEngineEnd
    \/ ExecFinalFlush
    \/ ExecClose
    \/ ExecYield
    \/ ExecTraceArrive
    \/ ExecAbandon
    \/ ExecFinalize

-----------------------------------------------------------------------------
(* State machine of the store and the manager, one operation at a time *)

StoreInit ==
    /\ conversations = EmptyMap
    /\ conv_keys = <<>>
    /\ item_index = EmptyMap
    /\ fresh = 0
    /\ checkpoint_conv_cache = [m \in Managers |-> EmptyMap]
    /\ last = [op |-> "init"]
    /\ ops = 0
    /\ saved = [e \in Entities |-> <<>>]
    /\ removed = EmptyMap
    /\ tasks = [t \in Tasks |-> [pc |-> "idle"]]
    /\ exec = ExecIdle
    /\ thread_storage = EmptyMap
    /\ agent_threads = EmptyMap
    /\ agent_keys = <<>>

\* The store becomes S, the operation op(args) returned r
Returned(S, op, args, r) ==
    /\ conversations' = S.conversations
    /\ conv_keys' = S.conv_keys
    /\ item_index' = S.item_index
    /\ fresh' = S.fresh
    /\ last' = [op |-> op, args |-> args, r |-> r]
    /\ ops' = ops + 1
    /\ UNCHANGED <<tasks, exec, registry_vars>>
    /\ removed' = LET gone == (DOMAIN conversations) \ (DOMAIN S.conversations)
                  IN  [c \in ((DOMAIN removed) \ (DOMAIN S.conversations)) \cup gone |->
                         IF c \in gone THEN ValidItemIds(Store, c) ELSE removed[c]]

StoreCall(op, args, res) ==
    /\ ops < MaxOps
    /\ Returned(res.S, op, args, res.r)
    /\ UNCHANGED <<checkpoint_conv_cache, saved>>

StoreRead(op, args, r) ==
    /\ ops < MaxOps
    /\ Returned(Store, op, args, r)
    /\ UNCHANGED <<checkpoint_conv_cache, saved>>

CreateConversation ==
    \E metadata \in MetadataArgs, conversation_id \in ExplicitIds \cup {""} :
        StoreCall("create_conversation",
                  [metadata |-> metadata, conversation_id |-> conversation_id],
                  create_conversation(Store, metadata, conversation_id))

GetConversation ==
    \E c \in ConvArgs :
        StoreRead("get_conversation", [conversation_id |-> c], get_conversation(Store, c))

UpdateConversation ==
    \E c \in ConvArgs, metadata \in MetadataArgs :
        StoreCall("update_conversation", [conversation_id |-> c, metadata |-> metadata],
                  update_conversation(Store, c, metadata))

DeleteConversation ==
    \E c \in ConvArgs :
        StoreCall("delete_conversation", [conversation_id |-> c],
                  delete_conversation(Store, c))

AddItems ==
    \E c \in ConvArgs, items \in RawItemLists :
        StoreCall("add_items", [conversation_id |-> c, items |-> items],
                  add_items(Store, c, items))

AddCheckpointItem ==
    \E c \in ConvArgs, checkpoint \in Checkpoints :
        StoreCall("add_checkpoint_item", [conversation_id |-> c, checkpoint |-> checkpoint],
                  add_checkpoint_item(Store, c, checkpoint))

ListItems ==
    \E c \in ConvArgs, limit \in Limits, order \in {"asc", "desc"} :
        \E after \in ItemIdArgs(Store, c) \cup {""} :
            StoreRead("list_items",
                      [conversation_id |-> c, limit |-> limit, after |-> after, order |-> order],
                      list_items(Store, c, limit, after, order))

GetItem ==
    \E c \in ConvArgs :
        \E item_id \in ItemIdArgs(Store, c) :
            StoreRead("get_item", [conversation_id |-> c, item_id |-> item_id],
                      get_item(Store, c, item_id))

GetThread ==
    \E c \in ConvArgs :
        StoreRead("get_thread", [conversation_id |-> c], get_thread(Store, c))

ListConversationsByMetadata ==
    \E metadata_filter \in MetadataFilters :
        StoreRead("list_conversations_by_metadata", [metadata_filter |-> metadata_filter],
                  list_conversations_by_metadata(Store, metadata_filter))

\* The engine, run with the thread get_thread handed out, appends a message to it
EngineAppend ==
    \E c \in DOMAIN conversations, msg \in EngineMessages :
        StoreCall("engine_append", [conversation_id |-> c, message |-> msg],
                  [S |-> [Store EXCEPT !.conversations[c].thread = on_new_messages(@, <<msg>>)],
                   r |-> None])

ManagerCall(m, op, args, res) ==
    /\ ops < MaxManagerOps
    /\ Returned(res.S, op, args, res.r)
    /\ checkpoint_conv_cache' = [checkpoint_conv_cache EXCEPT ![m] = res.cache]

GetOrCreateCheckpointConversation ==
    \E m \in Managers, e \in Entities :
        /\ ManagerCall(m, "get_or_create_checkpoint_conversation",
                       [manager |-> m, entity_id |-> e],
                       get_or_create_checkpoint_conversation(Store, checkpoint_conv_cache[m], e))
        /\ UNCHANGED saved

SaveCheckpoint ==
    \E m \in Managers, e \in Entities, checkpoint \in Checkpoints :
        LET res == save_checkpoint(Store, checkpoint_conv_cache[m], e, checkpoint)
        IN  /\ ManagerCall(m, "save_checkpoint",
                           [manager |-> m, entity_id |-> e, checkpoint |-> checkpoint], res)
            /\ saved' = IF res.r.ok THEN [saved EXCEPT ![e] = Append(@, checkpoint)] ELSE saved

LoadCheckpoint ==
    \E m \in Managers, e \in Entities :
      \E checkpoint_id \in CheckpointIds \cup ValidItemIds(Store, ContainerId(e)) :
        /\ ManagerCall(m, "load_checkpoint",
                       [manager |-> m, entity_id |-> e, checkpoint_id |-> checkpoint_id],
                       load_checkpoint(Store, checkpoint_conv_cache[m], e, checkpoint_id))
        /\ UNCHANGED saved

ListCheckpoints ==
    \E m \in Managers, e \in Entities, workflow_id \in {"", "wf1"} :
        /\ ManagerCall(m, "list_checkpoints",
                       [manager |-> m, entity_id |-> e, workflow_id |-> workflow_id],
                       list_checkpoints(Store, checkpoint_conv_cache[m], e, workflow_id))
        /\ UNCHANGED saved

vars == <<conversations, conv_keys, item_index, fresh, checkpoint_conv_cache, last, ops, saved,
          removed, tasks, exec, thread_storage, agent_threads, agent_keys>>

Init == StoreInit

Next ==
    \/ CreateConversation
    \/ GetConversation
    \/ UpdateConversation
    \/ DeleteConversation
    \/ AddItems
    \/ AddCheckpointItem
    \/ ListItems
    \/ GetItem
    \/ GetThread
    \/ ListConversationsByMetadata
    \/ EngineAppend

Spec == Init /\ [][Next]_vars

\* The manager alone over a store nothing else touches
ManagerNext ==
    \/ GetOrCreateCheckpointConversation
    \/ SaveCheckpoint
    \/ LoadCheckpoint
    \/ ListCheckpoints

ManagerSpec == Init /\ [][ManagerNext]_vars

-----------------------------------------------------------------------------
(* The store: lookup against listing, pagination, deletion *)

ItemIds(items) == {items[k].id : k \in 1..Len(items)}

\* C1: get_item(C, id) returns the item that list_items(C, order=asc) shows under
\* that id, for every listed id, and None for every id the listing does not show.
C1_GetItemMatchesListing ==
    \A c \in DOMAIN conversations :
        LET listed == list_items(Store, c, 100, "", "asc").items
        IN  /\ \A k \in 1..Len(listed) : get_item(Store, c, listed[k].id) = listed[k]
            /\ \A i \in ItemIdArgs(Store, c) \ ItemIds(listed) : get_item(Store, c, i) = None

\* A client paging through conversation c: list_items(limit=k), then again with
\* after = id of the last item of the page before, while has_more; calls bounds
\* the number of requests
RECURSIVE Paginate(_, _, _, _, _, _)
Paginate(S, c, k, order, after, calls) ==
    IF calls = 0 THEN [status |-> "endless", items |-> <<>>]
    ELSE LET page == list_items(S, c, k, after, order)
         IN  IF ~page.ok THEN [status |-> page.error, items |-> <<>>]
             ELSE IF ~page.has_more THEN [status |-> "done", items |-> page.items]
             ELSE LET rest == Paginate(S, c, k, order, page.items[Len(page.items)].id,
                                       calls - 1)
                  IN  [status |-> rest.status, items |-> page.items \o rest.items]

FullSequence(S, c, order) ==
    IF order = "desc" THEN Reverse(AllItems(S, c)) ELSE AllItems(S, c)

\* C2: paging with any page size 1 <= k <= N, in either order, ends without an
\* error and the pages put together are the full ordered item sequence, each item once.
C2_PaginationReproducesSequence ==
    \A c \in DOMAIN conversations, order \in {"asc", "desc"} :
        LET N == Len(AllItems(Store, c))
        IN  \A k \in 1..N :
                LET paged == Paginate(Store, c, k, order, "", N + 1)
                IN  paged.status = "done" /\ paged.items = FullSequence(Store, c, order)

DeletedIsAbsent ==
    \A c \in DOMAIN removed :
        /\ get_conversation(Store, c) = None
        /\ get_thread(Store, c) = None
        /\ \A i \in removed[c] : get_item(Store, c, i) = None

DeleteLeavesOthers ==
    (last'.op = "delete_conversation" /\ last'.r.ok) =>
        /\ DOMAIN conversations' = (DOMAIN conversations) \ {last'.args.conversation_id}
        /\ \A d \in DOMAIN conversations' :
              /\ conversations'[d] = conversations[d]
              /\ d \in DOMAIN item_index'
              /\ item_index'[d] = item_index[d]

\* C3: after a delete of C that succeeded and until C is created again, get(C),
\* getThread(C) and getItem(C, i), for every item id i valid before the delete, are
\* absent; the delete changes no other conversation's metadata, items, thread or index.
C3_DeleteRemovesAll == []DeletedIsAbsent /\ [][DeleteLeavesOthers]_vars

C3_Witness ==
    /\ last.op = "delete_conversation"
    /\ last.r.ok
    /\ removed[last.args.conversation_id] # {}

-----------------------------------------------------------------------------
(* The checkpoint manager alone *)

\* The conversations whose metadata marks them as the checkpoint container of e
Containers(e) ==
    {c \in DOMAIN conversations :
        {<<"entity_id", e>>, <<"type", "checkpoint_container">>} \subseteq conversations[c].metadata}

\* The entities some manager has resolved
Resolved == UNION {DOMAIN checkpoint_conv_cache[m] : m \in Managers}

\* C4: after any sequence of manager operations, every resolved entity e has exactly
\* one conversation marked {entity_id: e, type: checkpoint_container}, its id is
\* checkpoints_<e>, and every later resolve of e returns that id.
C4_OneContainerPerEntity ==
    \A e \in Resolved :
        /\ Containers(e) = {"checkpoints_" \o e}
        /\ \A m \in Managers :
              get_or_create_checkpoint_conversation(Store, checkpoint_conv_cache[m], e).r
                  = "checkpoints_" \o e
        /\ (last.op = "get_or_create_checkpoint_conversation" /\ last.args.entity_id = e)
              => last.r = "checkpoints_" \o e

C4_Witness ==
    /\ Resolved = Entities
    /\ \E e \in Entities : \A m \in Managers : e \in DOMAIN checkpoint_conv_cache[m]
    /\ last.op = "get_or_create_checkpoint_conversation"

SameCheckpoint(loaded, cp) ==
    /\ loaded # None
    /\ loaded.checkpoint_id = cp.checkpoint_id
    /\ loaded.workflow_id = cp.workflow_id
    /\ loaded.shared_state = cp.shared_state

Loaded(m, e, checkpoint_id) ==
    load_checkpoint(Store, checkpoint_conv_cache[m], e, checkpoint_id).r

\* C6 as claimed: whatever was saved in between, load(e, cp.checkpoint_id) returns a
\* checkpoint equal to cp in checkpoint_id, workflow_id and shared_state, for every
\* checkpoint cp saved for e.
C6_LoadReturnsSaved ==
    \A e \in Entities, m \in Managers :
        \A k \in 1..Len(saved[e]) :
            SameCheckpoint(Loaded(m, e, saved[e][k].checkpoint_id), saved[e][k])

\* C6: load(e, id) returns a checkpoint equal in checkpoint_id, workflow_id and
\* shared_state to the checkpoint most recently saved for e under that id, whatever
\* was saved for other entities or under other ids in between.
C6_LoadReturnsLatestSaved ==
    \A e \in Entities, m \in Managers :
        \A k \in 1..Len(saved[e]) :
            (\A j \in (k + 1)..Len(saved[e]) :
                saved[e][j].checkpoint_id # saved[e][k].checkpoint_id)
            => SameCheckpoint(Loaded(m, e, saved[e][k].checkpoint_id), saved[e][k])

C6_Witness ==
    /\ last.op = "load_checkpoint"
    /\ last.r # None
    /\ \E e \in Entities :
          /\ last.args.entity_id = e
          /\ Len(saved[e]) >= 2
          /\ saved[e][1].checkpoint_id = last.args.checkpoint_id
          /\ saved[e][2].checkpoint_id = last.args.checkpoint_id
          /\ saved[e][1] # saved[e][2]
          /\ SameCheckpoint(last.r, saved[e][2])

-----------------------------------------------------------------------------
(* Concurrent callers of one store and its managers.  A caller is a        *)
(* coroutine: it runs without interruption from one await to the next, so  *)
(* another caller can run between the awaited resolution of the container  *)
(* and the rest of save_checkpoint, load_checkpoint or list_checkpoints.   *)

StoreBecomes(S) ==
    /\ conversations' = S.conversations
    /\ conv_keys' = S.conv_keys
    /\ item_index' = S.item_index
    /\ fresh' = S.fresh

\* What the concurrent callers call: all of them for the same unseen entity
TaskCalls ==
    {[op |-> "get_or_create_checkpoint_conversation", entity_id |-> "wf1"]}
    \cup {[op |-> "save_checkpoint", entity_id |-> "wf1", checkpoint |-> cp] :
             cp \in {cp \in Checkpoints : cp.checkpoint_id = "cp1"}}
    \cup {[op |-> "load_checkpoint", entity_id |-> "wf1", checkpoint_id |-> "cp1"]}
    \cup {[op |-> "list_checkpoints", entity_id |-> "wf1", workflow_id |-> ""]}

\* await self.get_or_create_checkpoint_conversation(entity_id), first step of a call;
\* callers are interchangeable, so they start in the order of their numbers
TaskResolve(t) ==
    /\ tasks[t].pc = "idle"
    /\ \A u \in 1..(t - 1) : tasks[u].pc # "idle"
    /\ \E call \in TaskCalls, m \in Managers :
          LET got == get_or_create_checkpoint_conversation(Store, checkpoint_conv_cache[m],
                                                           call.entity_id)
          IN  /\ StoreBecomes(got.S)
              /\ checkpoint_conv_cache' = [checkpoint_conv_cache EXCEPT ![m] = got.cache]
              /\ tasks' = [tasks EXCEPT ![t] =
                              [pc |-> IF call.op = "get_or_create_checkpoint_conversation"
                                      THEN "done" ELSE "resolved",
                               op |-> call.op, manager |-> m, entity_id |-> call.entity_id,
                               call |-> call, conv_id |-> got.r, r |-> None]]
    /\ UNCHANGED <<last, ops, saved, removed, exec, registry_vars>>

\* await self.conversation_store.add_checkpoint_item(conv_id, checkpoint)
TaskSave(t) ==
    /\ tasks[t].pc = "resolved"
    /\ tasks[t].op = "save_checkpoint"
    /\ LET done == save_checkpoint_to(Store, tasks[t].conv_id, tasks[t].call.checkpoint)
       IN  /\ StoreBecomes(done.S)
           /\ tasks' = [tasks EXCEPT ![t].pc = "done", ![t].r = done.r]
           /\ saved' = IF done.r.ok
                       THEN [saved EXCEPT ![tasks[t].entity_id] = Append(@, tasks[t].call.checkpoint)]
                       ELSE saved
    /\ UNCHANGED <<checkpoint_conv_cache, last, ops, removed, exec, registry_vars>>

\* self.conversation_store.get_item(conv_id, checkpoint_id) and the rest of load_checkpoint
TaskLoad(t) ==
    /\ tasks[t].pc = "resolved"
    /\ tasks[t].op = "load_checkpoint"
    /\ tasks' = [tasks EXCEPT ![t].pc = "done",
                              ![t].r = load_checkpoint_from(Store, tasks[t].conv_id,
                                                            tasks[t].call.checkpoint_id)]
    /\ UNCHANGED <<conversations, conv_keys, item_index, fresh, checkpoint_conv_cache,
                   last, ops, saved, removed, exec, registry_vars>>

\* await self.conversation_store.list_items(conv_id, limit=1000) and the rest of list_checkpoints
TaskList(t) ==
    /\ tasks[t].pc = "resolved"
    /\ tasks[t].op = "list_checkpoints"
    /\ tasks' = [tasks EXCEPT ![t].pc = "done",
                              ![t].r = list_checkpoints_from(Store, tasks[t].conv_id,
                                                             tasks[t].call.workflow_id)]
    /\ UNCHANGED <<conversations, conv_keys, item_index, fresh, checkpoint_conv_cache,
                   last, ops, saved, removed, exec, registry_vars>>

ConcurrentNext ==
    \/ \E t \in Tasks : TaskResolve(t)
    \/ \E t \in Tasks : TaskSave(t)
    \/ \E t \in Tasks : TaskLoad(t)
    \/ \E t \in Tasks : TaskList(t)

ConcurrentSpec == Init /\ [][ConcurrentNext]_vars

\* The callers that have their container id for entity e
ResolvedTasks(e) == {t \in Tasks : tasks[t].pc # "idle" /\ tasks[t].entity_id = e}

\* The saves for entity e that returned
SavesDone(e) ==
    {t \in Tasks : /\ tasks[t].pc = "done"
                   /\ tasks[t].op = "save_checkpoint"
                   /\ tasks[t].entity_id = e
                   /\ tasks[t].r.ok}

\* C5: under every interleaving of concurrent callers resolving the same unseen
\* entity (directly or through save, load, list), all of them get the same conversation
\* id, exactly one container conversation exists, and no checkpoint item a caller saved
\* is lost to another caller's check-then-create step.
C5_ConcurrentResolveOneContainer ==
    \A e \in Entities :
        ResolvedTasks(e) # {} =>
            /\ \A t \in ResolvedTasks(e) : tasks[t].conv_id = "checkpoints_" \o e
            /\ Containers(e) = {"checkpoints_" \o e}
            /\ LET stored == SelectSeq(conversations["checkpoints_" \o e].items, IsCheckpointDict)
               IN  /\ Len(stored) = Cardinality(SavesDone(e))
                   /\ \A t \in SavesDone(e) :
                         \E k \in 1..Len(stored) :
                             stored[k].checkpoint_data = to_dict(tasks[t].call.checkpoint)
                   /\ Len(stored) = Len(saved[e])

C5_Witness ==
    \E e \in Entities, t1, t2 \in Tasks :
        /\ t1 # t2
        /\ {t1, t2} \subseteq SavesDone(e)
        /\ \E t3 \in ResolvedTasks(e) \ {t1, t2} : tasks[t3].pc = "resolved"
        /\ Len(conversations["checkpoints_" \o e].items) = 2

-----------------------------------------------------------------------------
(* The execution pipeline *)

ExecSpec == Init /\ [][ExecNext]_vars


\* The raw event behind an event of the output stream
Raw(event) == IF event.type = "openai" THEN event.of ELSE event

RawOut == [k \in 1..Len(exec.out) |-> Raw(exec.out[k])]

ErrorEvents == SelectSeq(RawOut, LAMBDA ev : ev.type = "error")

UpdateEvents == SelectSeq(RawOut, LAMBDA ev : ev.type = "update")

TraceEvents == SelectSeq(RawOut, LAMBDA ev : ev.type = "trace")

\* C7: a request (execute_streaming or execute_entity) for an entity id unknown to
\* discovery produces exactly one event, an error event, the last of the stream, and
\* no domain event; the engine is never invoked.
C7_UnknownEntityOneError ==
    (exec.pc = "Done" /\ exec.entity_id = "ghost") =>
        /\ Len(exec.out) = 1
        /\ RawOut[1].type = "error"
        /\ UpdateEvents = <<>>
        /\ exec.runs = 0

\* C8: when the driver or the engine raises during streaming, the execute_entity stream
\* emits exactly one error event {type: "error", message, entity_id}, nothing follows
\* it, and the engine call is not retried.
C8_DriverErrorTerminal ==
    (exec.api = "execute_entity" /\ exec.raised \cap {"convert", "engine", "flush"} # {}) =>
        /\ \A k \in 1..Len(exec.out) :
              exec.out[k].type = "error" =>
                  /\ "entity_id" \in DOMAIN exec.out[k]
                  /\ exec.out[k].entity_id = exec.entity_id
                  /\ k = Len(exec.out)
        /\ exec.pc = "Done" => Len(ErrorEvents) = 1
        /\ exec.runs <= 1

\* C9: no exception raised by entity lookup, input conversion, the engine, trace
\* flushing or event mapping reaches the consumer of execute_streaming or
\* execute_entity: after any of them the stream only goes on to its normal end.
C9_NoExceptionReachesConsumer ==
    /\ exec.pc # "Raised"
    /\ exec.raised # {} => exec.pc \in {"Flushing", "Closing", "Done"}
    /\ "mapper" \in exec.raised => exec.pc = "Done"

C9_Witness ==
    /\ exec.pc = "Done"
    /\ {"engine", "mapper"} \subseteq exec.raised

\* C10: in the output of one request the domain events are in the engine's emission
\* order, the trace events are in arrival order, and every trace event drained by
\* the flush for engine update u comes before u.
C10_StreamOrder ==
    /\ \A k \in 1..Len(UpdateEvents) : UpdateEvents[k].n = k
    /\ \A i, j \in 1..Len(TraceEvents) : i < j => TraceEvents[i].n < TraceEvents[j].n
    /\ \A i, j \in 1..Len(RawOut) :
          (RawOut[i].type = "trace" /\ RawOut[j].type = "update"
             /\ RawOut[i]["for"] = RawOut[j].n) => i < j

C10_Witness ==
    /\ Len(UpdateEvents) = 2
    /\ Len(TraceEvents) = 2
    /\ \E i \in 1..Len(RawOut) : RawOut[i].type = "trace" /\ RawOut[i]["for"] = 2
    /\ \E i \in 1..Len(RawOut) : RawOut[i].type = "trace" /\ RawOut[i]["for"] = 1

\* The positions of the output stream that hold trace event n
TracePositions(n) == {k \in 1..Len(RawOut) : RawOut[k].type = "trace" /\ RawOut[k].n = n}

\* The request ran its engine to the end of its stream, nothing raised, and the
\* consumer read the stream to its end
CompletedNormally ==
    /\ exec.pc = "Done"
    /\ exec.runs = 1
    /\ exec.raised = {}
    /\ ~exec.abandoned

\* C11: when the engine's streaming completes normally, every trace event the
\* collector accumulated from the opening of the scope to the end of engine streaming
\* is in the output stream exactly once, and the ones drained by the flush after the
\* driver come after the last domain event.
C11_TracesFlushedOnce ==
    CompletedNormally =>
        /\ \A n \in 1..Len(exec.arrived) :
              exec.arrived[n] \in {"Starting", "Streaming"} => Cardinality(TracePositions(n)) = 1
        /\ \A n \in 1..Len(exec.arrived) : Cardinality(TracePositions(n)) <= 1
        /\ \A i, j \in 1..Len(RawOut) :
              (RawOut[i].type = "trace" /\ RawOut[i]["for"] = 0 /\ RawOut[j].type = "update")
                  => j < i

C11_Witness ==
    /\ CompletedNormally
    /\ Len(UpdateEvents) >= 1
    /\ exec.arrived = <<"Streaming", "Streaming">>
    /\ \E i \in 1..Len(RawOut) : RawOut[i].type = "trace" /\ RawOut[i]["for"] = 1
    /\ \E i \in 1..Len(RawOut) : RawOut[i].type = "trace" /\ RawOut[i]["for"] = 0

\* C12: in no terminal state of a request is its trace-collection scope still held,
\* whether the stream ended normally, after an exception in the driver or the engine,
\* on an unsupported entity type, or because the consumer closed it before its end.
C12_ScopeReleasedAtEnd ==
    exec.pc = "Done" => exec.scope # "held"

-----------------------------------------------------------------------------
(* Concurrent callers of the store on one conversation id.  create, delete  *)
(* and add_checkpoint_item run without interruption; add_items is suspended *)
(* at `await thread.on_new_messages(...)` and resumed later.                *)

SharedId == "conv_A"

StoreTaskCalls ==
    {[op |-> "create_conversation", metadata |-> metadata] : metadata \in MetadataArgs}
    \cup {[op |-> "delete_conversation"]}
    \cup {[op |-> "add_items", items |-> items] : items \in RawItemLists}
    \cup {[op |-> "add_checkpoint_item", checkpoint |-> cp] :
             cp \in {cp \in Checkpoints : cp.checkpoint_id = "cp1"}}

\* Callers are interchangeable, so they start in the order of their numbers
MayStart(t) ==
    /\ tasks[t].pc = "idle"
    /\ \A u \in 1..(t - 1) : tasks[u].pc # "idle"

StoreTaskStep(t, call, res) ==
    /\ StoreBecomes(res.S)
    /\ tasks' = [tasks EXCEPT ![t] = [pc |-> "done", op |-> call.op, call |-> call, r |-> res.r]]
    /\ UNCHANGED <<checkpoint_conv_cache, last, ops, saved, removed, exec, registry_vars>>

StoreTaskCreate(t) ==
    /\ MayStart(t)
    /\ \E call \in {k \in StoreTaskCalls : k.op = "create_conversation"} :
          StoreTaskStep(t, call, create_conversation(Store, call.metadata, SharedId))

StoreTaskDelete(t) ==
    /\ MayStart(t)
    /\ \E call \in {k \in StoreTaskCalls : k.op = "delete_conversation"} :
          StoreTaskStep(t, call, delete_conversation(Store, SharedId))

StoreTaskAddCheckpointItem(t) ==
    /\ MayStart(t)
    /\ \E call \in {k \in StoreTaskCalls : k.op = "add_checkpoint_item"} :
          StoreTaskStep(t, call, add_checkpoint_item(Store, SharedId, call.checkpoint))

\* add_items up to its await: the lookup of conv_data, or ValueError
StoreTaskAddItemsBegin(t) ==
    /\ MayStart(t)
    /\ \E call \in {k \in StoreTaskCalls : k.op = "add_items"} :
          tasks' = [tasks EXCEPT ![t] =
                      IF SharedId \notin DOMAIN conversations
                      THEN [pc |-> "done", op |-> call.op, call |-> call,
                            r |-> [ok |-> FALSE, error |-> "ValueError"]]
                      ELSE [pc |-> "awaiting", op |-> call.op, call |-> call,
                            conv_tid |-> conversations[SharedId].thread.tid, r |-> None]]
    /\ UNCHANGED <<conversations, conv_keys, item_index, fresh, checkpoint_conv_cache,
                   last, ops, saved, removed, exec, registry_vars>>

\* add_items after its await
StoreTaskAddItemsResume(t) ==
    /\ tasks[t].pc = "awaiting"
    /\ LET res == add_items_resume(Store, SharedId, tasks[t].conv_tid, tasks[t].call.items)
       IN  /\ StoreBecomes(res.S)
           /\ tasks' = [tasks EXCEPT ![t].pc = "done", ![t].r = res.r]
    /\ UNCHANGED <<checkpoint_conv_cache, last, ops, saved, removed, exec, registry_vars>>

StoreConcurrentNext ==
    \/ \E t \in Tasks : StoreTaskCreate(t)
    \/ \E t \in Tasks : StoreTaskDelete(t)
    \/ \E t \in Tasks : StoreTaskAddCheckpointItem(t)
    \/ \E t \in Tasks : StoreTaskAddItemsBegin(t)
    \/ \E t \in Tasks : StoreTaskAddItemsResume(t)

StoreConcurrentSpec == Init /\ [][StoreConcurrentNext]_vars

\* Every started call has returned
AllReturned == \A t \in Tasks : tasks[t].pc \in {"idle", "done"}

\* C13: once all concurrent create, add_items, add_checkpoint_item and delete calls
\* on one conversation id have returned, the id has an index entry only if the
\* conversation exists, every indexed item is in the conversation's item list (so no
\* item of a deleted or overwritten conversation is retrievable), and every item a
\* successful add_items returned for the surviving conversation is in list and index.
C13_ConcurrentIndexConsistent ==
    AllReturned =>
        /\ SharedId \in DOMAIN item_index => SharedId \in DOMAIN conversations
        /\ SharedId \in DOMAIN item_index =>
              \A i \in DOMAIN item_index[SharedId] :
                  \E k \in 1..Len(conversations[SharedId].items) :
                      conversations[SharedId].items[k] = item_index[SharedId][i]

-----------------------------------------------------------------------------
(* The store, one operation at a time: index, ids, listing *)

\* The ids of the items in the stored item list of conversation c
StoredIds(c) == ItemIds(conversations[c].items)

\* C14: after every sequence of store operations run one after the other, the
\* conversation ids with an index entry are the existing conversation ids, and for
\* each conversation the index maps every id of an item of its stored item list to
\* an item of that list with that id, and maps no other id.
C14_IndexMatchesItems ==
    /\ DOMAIN item_index = DOMAIN conversations
    /\ \A c \in DOMAIN conversations :
          /\ DOMAIN item_index[c] = StoredIds(c)
          /\ \A i \in DOMAIN item_index[c] :
                /\ item_index[c][i].id = i
                /\ \E k \in 1..Len(conversations[c].items) :
                      conversations[c].items[k] = item_index[c][i]

C14_Witness ==
    /\ last.op = "add_checkpoint_item"
    /\ last.r.ok
    /\ \E c \in DOMAIN conversations :
          /\ Len(conversations[c].items) >= 2
          /\ \E k \in 1..Len(conversations[c].items) : conversations[c].items[k].type = "message"

\* C15: no two items of the full list_items(C) result of a conversation share an id,
\* after any sequence of add_items, add_checkpoint_item and engine appends, repeated
\* adds of a checkpoint with one checkpoint_id included.
C15_ItemIdsUnique ==
    \A c \in DOMAIN conversations :
        LET listed == list_items(Store, c, 100, "", "asc").items
        IN  \A i, j \in 1..Len(listed) : listed[i].id = listed[j].id => i = j

\* C16: for one conversation state and one limit >= the number of items, without a
\* cursor, list_items(order=desc) returns exactly the reverse of what
\* list_items(order=asc) returns.
C16_DescIsReverseOfAsc ==
    \A c \in DOMAIN conversations :
        LET N == Len(AllItems(Store, c))
        IN  \A limit \in {N, N + 1, 100} :
                LET asc == list_items(Store, c, limit, "", "asc")
                    desc == list_items(Store, c, limit, "", "desc")
                IN  /\ asc.ok /\ desc.ok
                    /\ Len(asc.items) = N
                    /\ Len(desc.items) = N
                    /\ \A k \in 1..N : desc.items[k] = asc.items[N + 1 - k]
                    /\ desc.has_more = asc.has_more

C16_Witness ==
    /\ last.op = "list_items"
    /\ last.args.order = "desc"
    /\ last.args.after = ""
    /\ last.r.ok
    /\ Len(last.r.items) = 2
    /\ last.r.items[1].id # last.r.items[2].id
    /\ ~last.r.has_more
    /\ LET asc == list_items(Store, last.args.conversation_id, 2, "", "asc").items
       IN  last.r.items[1] = asc[2] /\ last.r.items[2] = asc[1]

\* The index of the first element of items whose id is after; 0 if there is none
FirstWithId(items, after) ==
    LET hits == {k \in 1..Len(items) : items[k].id = after}
    IN  IF hits = {} THEN 0 ELSE CHOOSE k \in hits : \A j \in hits : k <= j

\* C17: for every conversation state, cursor, order and limit >= 0, the page of
\* list_items starts after the first element of the (possibly reversed) sequence
\* whose id equals `after`, or at index 0 when `after` is omitted or matches no item;
\* it is the next `limit` elements in order; has_more is true exactly when
\* total length > start index + limit.
C17_CursorSemantics ==
    \A c \in DOMAIN conversations, order \in {"asc", "desc"} :
        LET items == FullSequence(Store, c, order)
        IN  \A limit \in 0..(Len(items) + 1), after \in ItemIds(items) \cup {"", "item_none"} :
                LET start_idx == IF after = "" THEN 0 ELSE FirstWithId(items, after)
                    page == list_items(Store, c, limit, after, order)
                IN  /\ page.ok
                    /\ Len(page.items) = Min(limit, Len(items) - start_idx)
                    /\ \A k \in 1..Len(page.items) : page.items[k] = items[start_idx + k]
                    /\ page.has_more = (Len(items) > start_idx + limit)

\* What another caller appends to conversation c between two page requests
TailAppends == {"message", "checkpoint"}

AppendOne(S, c, what) ==
    IF what = "message"
    THEN add_items(S, c, <<[role |-> "user", content |-> <<[text |-> "later"]>>]>>).S
    ELSE add_checkpoint_item(S, c, WorkflowCheckpoint("cp9", "wf1", "2025-01-02T00:00:00", {})).S

\* A client paging through conversation c in ascending order with page size k while
\* the appends of `appends` happen, one after each page that is not the last
RECURSIVE PaginateWhileAppending(_, _, _, _, _, _)
PaginateWhileAppending(S, c, k, after, calls, appends) ==
    IF calls = 0 THEN [status |-> "endless", items |-> <<>>]
    ELSE LET page == list_items(S, c, k, after, "asc")
         IN  IF ~page.ok THEN [status |-> page.error, items |-> <<>>]
             ELSE IF ~page.has_more THEN [status |-> "done", items |-> page.items]
             ELSE LET S2 == IF appends = <<>> THEN S ELSE AppendOne(S, c, Head(appends))
                      rest == PaginateWhileAppending(
                                  S2, c, k, page.items[Len(page.items)].id, calls - 1,
                                  IF appends = <<>> THEN <<>> ELSE Tail(appends))
                  IN  [status |-> rest.status, items |-> page.items \o rest.items]

\* The appends of one pagination: at most two, the checkpoint at most once
AppendSequences ==
    {<<>>} \cup {<<a>> : a \in TailAppends}
    \cup {<<a, b>> : a \in TailAppends, b \in TailAppends \ {"checkpoint"}}
    \cup {<<"message", "checkpoint">>}

\* C18: when items are appended to conversation C between the page requests of an
\* ascending cursor pagination, every item that existed when the pagination started
\* is returned exactly once and in its original order, and no item is returned twice.
C18_PagesStableUnderAppends ==
    \A c \in DOMAIN conversations :
        LET before == AllItems(Store, c)
        IN  \A k \in 1..Len(before), appends \in AppendSequences :
                LET paged == PaginateWhileAppending(Store, c, k, "", Len(before) + 3, appends)
                IN  /\ SelectSeq(paged.items, LAMBDA it : it.id \in ItemIds(before)) = before
                    /\ \A i, j \in 1..Len(paged.items) :
                          paged.items[i].id = paged.items[j].id => i = j

-----------------------------------------------------------------------------
(* The checkpoint manager alone: listing and saving *)

\* The checkpoints saved for entity e, in save order, that workflow_id selects
SavedFor(e, workflow_id) ==
    IF workflow_id = "" THEN saved[e]
    ELSE SelectSeq(saved[e], LAMBDA cp : cp.workflow_id = workflow_id)

\* C19: list(e, workflow_id) returns exactly the checkpoints saved for e, one per
\* save and in save order, whose workflow_id is the one given, or all of them when
\* none is given; the empty sequence for an entity with no saves.
C19_ListReturnsSaved ==
    \A e \in Entities, m \in Managers, workflow_id \in {"", "wf1", "wf2"} :
        LET listed == list_checkpoints(Store, checkpoint_conv_cache[m], e, workflow_id).r
        IN  /\ listed.ok
            /\ listed.value = SavedFor(e, workflow_id)
            /\ (last.op = "list_checkpoints" /\ last.args.entity_id = e
                   /\ last.args.workflow_id = workflow_id) => last.r = listed

C19_Witness ==
    /\ last.op = "list_checkpoints"
    /\ last.args.workflow_id = "wf1"
    /\ Len(saved[last.args.entity_id]) = 2
    /\ Len(last.r.value) = 1
    /\ last.r.value[1].shared_state = {<<"k", "v">>}
    /\ \E e \in Entities : saved[e] = <<>>

\* The items and thread messages conversation c has; none when it does not exist
ItemsOf(convs, c) == IF c \in DOMAIN convs THEN convs[c].items ELSE <<>>

MessagesOf(convs, c) == IF c \in DOMAIN convs THEN convs[c].thread.messages ELSE <<>>

SaveAppendsOneItem ==
    (last'.op = "save_checkpoint" /\ last'.r.ok) =>
        LET e == last'.args.entity_id
            cp == last'.args.checkpoint
            c == get_or_create_checkpoint_conversation(
                     Store, checkpoint_conv_cache[last'.args.manager], e).r
            after == ItemsOf(conversations', c)
        IN  /\ last'.r.value = cp.checkpoint_id
            /\ c \in DOMAIN conversations'
            /\ Len(after) = Len(ItemsOf(conversations, c)) + 1
            /\ SubSeq(after, 1, Len(after) - 1) = ItemsOf(conversations, c)
            /\ after[Len(after)].type = "checkpoint"
            /\ after[Len(after)].id = cp.checkpoint_id
            /\ after[Len(after)].checkpoint_data.checkpoint_id = cp.checkpoint_id
            /\ MessagesOf(conversations', c) = MessagesOf(conversations, c)
            /\ DOMAIN conversations' = (DOMAIN conversations) \cup {c}
            /\ \A d \in (DOMAIN conversations) \ {c} : conversations'[d] = conversations[d]

\* C20: a save(e, cp) that returns gives cp.checkpoint_id and appends exactly one
\* checkpoint-typed item to the container conversation of e, whose id and embedded
\* checkpoint_data.checkpoint_id are cp.checkpoint_id; it appends nothing to the
\* container's thread history and changes no other conversation's items.
C20_SaveAppendsOneItem == [][SaveAppendsOneItem]_vars

C20_Witness ==
    /\ last.op = "save_checkpoint"
    /\ last.r.ok
    /\ last.r.value = "cp1"
    /\ Len(ItemsOf(conversations, "checkpoints_" \o last.args.entity_id)) = 2
    /\ \E d \in DOMAIN conversations :
          d # "checkpoints_" \o last.args.entity_id /\ Len(conversations[d].items) = 1

-----------------------------------------------------------------------------
(* The manager over a store that other callers use directly: they add      *)
(* items to a container conversation, replace its metadata or delete it.    *)

MixedNext ==
    \/ ops < MaxMixedOps /\ GetOrCreateCheckpointConversation
    \/ ops < MaxMixedOps /\ SaveCheckpoint
    \/ ops < MaxMixedOps /\ LoadCheckpoint
    \/ ops < MaxMixedOps /\ ListCheckpoints
    \/ ops < MaxMixedOps /\ AddItems
    \/ ops < MaxMixedOps /\ UpdateConversation
    \/ ops < MaxMixedOps /\ DeleteConversation

MixedSpec == Init /\ [][MixedNext]_vars

\* C21: load(e, id) returns None whenever the container of e has no item with that
\* id or the item with that id is not checkpoint-typed (a message added to the
\* container with add_items); it returns a checkpoint only for an id saved for e.
C21_LoadAbsentOrNotCheckpoint ==
    \A e \in Entities, m \in Managers :
        LET got == get_or_create_checkpoint_conversation(Store, checkpoint_conv_cache[m], e)
        IN  \A id \in CheckpointIds \cup ValidItemIds(got.S, got.r) :
                LET loaded == load_checkpoint(Store, checkpoint_conv_cache[m], e, id).r
                    item == get_item(got.S, got.r, id)
                IN  /\ (item = None \/ item.type # "checkpoint") => loaded = None
                    /\ loaded # None =>
                          \E k \in 1..Len(saved[e]) :
                              saved[e][k].checkpoint_id = id /\ loaded = saved[e][k]
                    /\ (last.op = "load_checkpoint" /\ last.args.entity_id = e
                           /\ last.args.manager = m /\ last.args.checkpoint_id = id)
                          => last.r = loaded

C21_Witness ==
    /\ last.op = "load_checkpoint"
    /\ last.r = None
    /\ LET c == ContainerId(last.args.entity_id)
       IN  /\ c \in DOMAIN item_index
           /\ last.args.checkpoint_id \in DOMAIN item_index[c]
           /\ item_index[c][last.args.checkpoint_id].type = "message"

-----------------------------------------------------------------------------
(* ConversationItemCheckpointStorage: the adapter of one manager for one    *)
(* entity.  caches holds the cache of every manager.                        *)

\* An adapter that forgets the entity it was made for
ConversationItemCheckpointStorage_unscoped(manager, entity_id) ==
    [manager |-> manager, entity_id |-> "wf1"]

\* get_checkpoint_storage(entity_id) of manager
ConversationItemCheckpointStorage(manager, entity_id) ==
    [manager |-> manager, entity_id |-> entity_id]

storage_save_checkpoint(S, caches, storage, checkpoint) ==
    save_checkpoint(S, caches[storage.manager], storage.entity_id, checkpoint)

storage_load_checkpoint(S, caches, storage, checkpoint_id) ==
    load_checkpoint(S, caches[storage.manager], storage.entity_id, checkpoint_id)

storage_list_checkpoints(S, caches, storage, workflow_id) ==
    list_checkpoints(S, caches[storage.manager], storage.entity_id, workflow_id)

storage_list_checkpoint_ids(S, caches, storage, workflow_id) ==
    LET res == list_checkpoints(S, caches[storage.manager], storage.entity_id, workflow_id)
    IN  [S |-> res.S, cache |-> res.cache,
         r |-> IF ~res.r.ok THEN res.r
               ELSE [ok |-> TRUE,
                     value |-> [k \in 1..Len(res.r.value) |-> res.r.value[k].checkpoint_id]]]

StorageSaveCheckpoint ==
    \E m \in Managers, e \in Entities, checkpoint \in Checkpoints :
        LET storage == ConversationItemCheckpointStorage(m, e)
            res == storage_save_checkpoint(Store, checkpoint_conv_cache, storage, checkpoint)
        IN  /\ ManagerCall(storage.manager, "storage.save_checkpoint",
                           [manager |-> m, entity_id |-> e, checkpoint |-> checkpoint], res)
            /\ saved' = IF res.r.ok THEN [saved EXCEPT ![e] = Append(@, checkpoint)] ELSE saved

StorageLoadCheckpoint ==
    \E m \in Managers, e \in Entities, checkpoint_id \in CheckpointIds :
        /\ ManagerCall(m, "storage.load_checkpoint",
                       [manager |-> m, entity_id |-> e, checkpoint_id |-> checkpoint_id],
                       storage_load_checkpoint(Store, checkpoint_conv_cache,
                                               ConversationItemCheckpointStorage(m, e),
                                               checkpoint_id))
        /\ UNCHANGED saved

StorageListCheckpointIds ==
    \E m \in Managers, e \in Entities, workflow_id \in {"", "wf1"} :
        /\ ManagerCall(m, "storage.list_checkpoint_ids",
                       [manager |-> m, entity_id |-> e, workflow_id |-> workflow_id],
                       storage_list_checkpoint_ids(Store, checkpoint_conv_cache,
                                                   ConversationItemCheckpointStorage(m, e),
                                                   workflow_id))
        /\ UNCHANGED saved

StorageListCheckpoints ==
    \E m \in Managers, e \in Entities, workflow_id \in {"", "wf1"} :
        /\ ManagerCall(m, "storage.list_checkpoints",
                       [manager |-> m, entity_id |-> e, workflow_id |-> workflow_id],
                       storage_list_checkpoints(Store, checkpoint_conv_cache,
                                                ConversationItemCheckpointStorage(m, e),
                                                workflow_id))
        /\ UNCHANGED saved

\* Adapter calls and manager calls in any order
StorageNext ==
    \/ ops < MaxMixedOps /\ StorageSaveCheckpoint
    \/ ops < MaxMixedOps /\ StorageLoadCheckpoint
    \/ ops < MaxMixedOps /\ StorageListCheckpointIds
    \/ ops < MaxMixedOps /\ StorageListCheckpoints
    \/ ops < MaxMixedOps /\ GetOrCreateCheckpointConversation
    \/ ops < MaxMixedOps /\ SaveCheckpoint
    \/ ops < MaxMixedOps /\ LoadCheckpoint
    \/ ops < MaxMixedOps /\ ListCheckpoints

StorageSpec == Init /\ [][StorageNext]_vars

\* What the adapter of manager m for entity e returns agrees with the manager
StorageAgreesWithManager ==
    \A m \in Managers, e \in Entities :
        LET storage == ConversationItemCheckpointStorage(m, e)
            cache == checkpoint_conv_cache[m]
        IN  /\ \A id \in CheckpointIds :
                  storage_load_checkpoint(Store, checkpoint_conv_cache, storage, id)
                      = load_checkpoint(Store, cache, e, id)
            /\ \A workflow_id \in {"", "wf1", "wf2"} :
                  LET listed == list_checkpoints(Store, cache, e, workflow_id)
                      ids == storage_list_checkpoint_ids(Store, checkpoint_conv_cache, storage,
                                                         workflow_id)
                  IN  /\ storage_list_checkpoints(Store, checkpoint_conv_cache, storage,
                                                  workflow_id) = listed
                      /\ ids.S = listed.S
                      /\ Len(ids.r.value) = Len(listed.r.value)
                      /\ \A k \in 1..Len(ids.r.value) :
                            ids.r.value[k] = listed.r.value[k].checkpoint_id
            /\ list_checkpoints(Store, cache, e, "").r.value = saved[e]
            /\ \A k \in 1..Len(saved[e]) :
                  load_checkpoint(Store, cache, e, saved[e][k].checkpoint_id).r # None

\* A save through the adapter does to the store and returns what the manager's does
StorageSaveIsManagerSave ==
    last'.op = "storage.save_checkpoint" =>
        LET m == last'.args.manager
            res == save_checkpoint(Store, checkpoint_conv_cache[m], last'.args.entity_id,
                                   last'.args.checkpoint)
        IN  /\ last'.r = res.r
            /\ conversations' = res.S.conversations
            /\ conv_keys' = res.S.conv_keys
            /\ item_index' = res.S.item_index
            /\ checkpoint_conv_cache'[m] = res.cache

\* C22: the adapter of entity e is equivalent to the manager called with e: in any
\* interleaving of adapter and manager calls its save, load and list return what the
\* manager's return and change the store alike, list_checkpoint_ids returns the
\* checkpoint_id of each element of list in order, and a checkpoint saved through
\* the adapter is returned by the manager's list and load for e.
C22_AdapterEquivalentToManager ==
    []StorageAgreesWithManager /\ [][StorageSaveIsManagerSave]_vars

C22_Witness ==
    /\ last.op = "storage.save_checkpoint"
    /\ last.args.entity_id = "wf2"
    /\ last.r.ok
    /\ saved["wf1"] = <<>>
    /\ storage_list_checkpoint_ids(Store, checkpoint_conv_cache,
                                   ConversationItemCheckpointStorage("m1", "wf2"), "").r.value
          = <<"cp1", "cp2">>
    /\ list_checkpoints(Store, checkpoint_conv_cache["m2"], "wf2", "wf2").r.value
          = <<last.args.checkpoint>>

\* C23: the id a resolve of e returns names a conversation that exists when it is
\* returned and carries the marking {entity_id: e, type: checkpoint_container}, also
\* after the container was deleted or its metadata replaced through the store once
\* the manager had cached it; so a save(e, cp) after such a deletion succeeds.
C23_ResolvedContainerExists ==
    /\ last.op = "get_or_create_checkpoint_conversation" =>
          /\ last.r \in DOMAIN conversations
          /\ ContainerFilter(last.args.entity_id) \subseteq conversations[last.r].metadata
    /\ (last.op = "save_checkpoint" /\ fromisoformat(last.args.checkpoint.timestamp).ok) =>
          last.r.ok

-----------------------------------------------------------------------------
(* The store, one operation at a time: absent ids, overwrite, metadata *)

StoreUnchanged ==
    /\ conversations' = conversations
    /\ conv_keys' = conv_keys
    /\ item_index' = item_index

\* The step is a call of one of ops_ with a conversation id that does not exist
CalledOnAbsent(ops_) ==
    /\ last'.op \in ops_
    /\ ops' = ops + 1
    /\ last'.args.conversation_id \notin DOMAIN conversations

AbsentIdHandling ==
    /\ CalledOnAbsent({"update_conversation", "delete_conversation", "add_items",
                       "add_checkpoint_item", "list_items"}) =>
          /\ last'.r = [ok |-> FALSE, error |-> "ValueError"]
          /\ StoreUnchanged
    /\ CalledOnAbsent({"get_conversation", "get_item", "get_thread"}) =>
          /\ last'.r = None
          /\ StoreUnchanged
    /\ (last'.op = "create_conversation" /\ ops' = ops + 1) => last'.r.ok
    /\ (last'.op = "list_conversations_by_metadata" /\ ops' = ops + 1) =>
          /\ Len(last'.r) <= Len(conv_keys)
          /\ StoreUnchanged

\* C24: update_conversation, delete_conversation, add_items, add_checkpoint_item and
\* list_items called with a conversation id that does not exist fail with ValueError
\* and leave the store unchanged; get_conversation, get_item and get_thread return
\* None; create_conversation and list_conversations_by_metadata never fail.
C24_AbsentIdHandling == [][AbsentIdHandling]_vars

C24_Witness ==
    /\ last.op = "add_checkpoint_item"
    /\ last.r = [ok |-> FALSE, error |-> "ValueError"]
    /\ last.args.conversation_id \notin DOMAIN conversations
    /\ \E c \in DOMAIN conversations : conversations[c].items # <<>>

\* The store after the step
StoreAfter == [conversations |-> conversations', conv_keys |-> conv_keys',
               item_index |-> item_index', fresh |-> fresh']

\* The threads of the existing conversations
ThreadIds(convs) == {convs[c].thread.tid : c \in DOMAIN convs}

CreateOverwrites ==
    (last'.op = "create_conversation" /\ ops' = ops + 1) =>
        LET id == last'.r.value.id
        IN  /\ last'.r.ok
            /\ last'.args.conversation_id # "" => id = last'.args.conversation_id
            /\ list_items(StoreAfter, id, 100, "", "asc")
                   = [ok |-> TRUE, items |-> <<>>, has_more |-> FALSE]
            /\ get_conversation(StoreAfter, id).metadata = last'.args.metadata
            /\ get_thread(StoreAfter, id).messages = <<>>
            /\ get_thread(StoreAfter, id).tid \notin ThreadIds(conversations)
            /\ id \in DOMAIN conversations =>
                  \A i \in ValidItemIds(Store, id) : get_item(StoreAfter, id, i) = None
            /\ last'.args.conversation_id = "" =>
                  /\ id \notin DOMAIN conversations
                  /\ \A d \in DOMAIN conversations :
                        d \in DOMAIN conversations' /\ conversations'[d] = conversations[d]

\* C25: create_conversation with an id that exists succeeds and replaces the prior
\* conversation: afterwards list_items(id) is empty with has_more false, get_item is
\* None for every item id of the prior conversation, get_thread(id) is a new thread
\* with empty history and the metadata is the one given; create_conversation without
\* an id never overwrites an existing conversation.
C25_CreateOverwrites == [][CreateOverwrites]_vars

C25_Witness ==
    /\ last.op = "create_conversation"
    /\ last.args.conversation_id = "conv_A"
    /\ last.args.metadata # {}
    /\ ops = 3
    /\ DOMAIN conversations = {"conv_A"}
    /\ last.r.value.created_at = 3
    /\ item_index["conv_A"] = EmptyMap

UpdateReplacesMetadata ==
    (last'.op = "update_conversation" /\ ops' = ops + 1 /\ last'.r.ok) =>
        LET id == last'.args.conversation_id
            m == last'.args.metadata
        IN  /\ get_conversation(StoreAfter, id).metadata = m
            /\ last'.r.value = get_conversation(StoreAfter, id)
            /\ get_conversation(StoreAfter, id).id = get_conversation(Store, id).id
            /\ get_conversation(StoreAfter, id).created_at = get_conversation(Store, id).created_at
            /\ conversations'[id].thread = conversations[id].thread
            /\ conversations'[id].items = conversations[id].items
            /\ item_index' = item_index
            /\ conv_keys' = conv_keys
            /\ DOMAIN conversations' = DOMAIN conversations
            /\ \A d \in (DOMAIN conversations) \ {id} : conversations'[d] = conversations[d]

\* C26: update_conversation(id, m) on an existing conversation replaces the metadata
\* wholesale (get_conversation(id).metadata is m exactly, no old key missing from m
\* survives) and leaves the conversation's id, created_at, thread, item list and item
\* index, and every other conversation, unchanged.
C26_UpdateReplacesMetadata == [][UpdateReplacesMetadata]_vars

C26_Witness ==
    /\ last.op = "update_conversation"
    /\ last.r.ok
    /\ last.args.metadata = {}
    /\ conversations[last.args.conversation_id].created_at = 0
    /\ conversations[last.args.conversation_id].metadata = {}
    /\ \E d \in DOMAIN conversations : conversations[d].metadata # {}

\* metadata has every key of filter with an equal value
MatchesFilter(metadata, filter) ==
    \A f \in filter : \E kv \in metadata : kv[1] = f[1] /\ kv[2] = f[2]

\* C27: list_conversations_by_metadata(filter) returns exactly the existing
\* conversations whose current metadata has every key of filter with an equal value
\* (all of them for the empty filter, none without metadata for a non-empty one),
\* each once, and never a deleted conversation.
C27_ListByMetadataExact ==
    \A filter \in MetadataFilters :
        LET found == list_conversations_by_metadata(Store, filter)
        IN  /\ \A k \in 1..Len(found) :
                  /\ found[k].id \in DOMAIN conversations
                  /\ found[k] = get_conversation(Store, found[k].id)
                  /\ MatchesFilter(conversations[found[k].id].metadata, filter)
            /\ \A i, j \in 1..Len(found) : found[i].id = found[j].id => i = j
            /\ \A c \in DOMAIN conversations :
                  MatchesFilter(conversations[c].metadata, filter)
                      => \E k \in 1..Len(found) : found[k].id = c
            /\ (last.op = "list_conversations_by_metadata"
                   /\ last.args.metadata_filter = filter) => last.r = found

C27_Witness ==
    /\ last.op = "list_conversations_by_metadata"
    /\ last.args.metadata_filter = {<<"agent_id", "a2">>}
    /\ Len(last.r) = 1
    /\ last.r[1].metadata = {<<"agent_id", "a2">>, <<"topic", "t">>}
    /\ \E c \in DOMAIN conversations : conversations[c].metadata = {<<"agent_id", "a1">>}

\* The thread-derived items of a listing
ThreadDerived(items) == SelectSeq(items, LAMBDA it : ~IsCheckpointDict(it))

AddItemsAppendsMessages ==
    (last'.op = "add_items" /\ ops' = ops + 1 /\ last'.r.ok) =>
        LET c == last'.args.conversation_id
            raw == last'.args.items
            n == Len(raw)
            role(k) == IF "role" \in DOMAIN raw[k] THEN raw[k].role ELSE "user"
            text(k) == IF "content" \in DOMAIN raw[k] /\ raw[k].content # <<>>
                       THEN raw[k].content[1].text ELSE ""
            old == conversations[c].thread.messages
            new == conversations'[c].thread.messages
            before == ThreadDerived(list_items(Store, c, 100, "", "asc").items)
            after == ThreadDerived(list_items(StoreAfter, c, 100, "", "asc").items)
        IN  /\ Len(new) = Len(old) + n
            /\ SubSeq(new, 1, Len(old)) = old
            /\ Len(last'.r.value) = n
            /\ Len(after) = Len(before) + n
            /\ SubSeq(after, 1, Len(before)) = before
            /\ \A k \in 1..n :
                  /\ new[Len(old) + k].role = role(k)
                  /\ new[Len(old) + k].contents = <<[type |-> "text", text |-> text(k)]>>
                  /\ last'.r.value[k].type = "message"
                  /\ last'.r.value[k].role = role(k)
                  /\ last'.r.value[k].content = <<[type |-> "text", text |-> text(k)]>>
                  /\ after[Len(before) + k].type = "message"
                  /\ after[Len(before) + k].role = role(k)
                  /\ after[Len(before) + k].content = <<[type |-> "text", text |-> text(k)]>>

\* C28: add_items(C, raw) appends one thread message per raw item, in input order,
\* with the raw item's role (default user) and the text of its first content part
\* only (empty without a content part), and returns one Message per raw item in that
\* order; a following list_items(C) shows them as Message items with the same role
\* and text after all earlier thread-derived items.
C28_AddItemsAppendsMessages == [][AddItemsAppendsMessages]_vars

C28_Witness ==
    /\ last.op = "add_items"
    /\ last.args = [conversation_id |-> "conv_A",
                    items |-> <<[role |-> "user", content |-> <<[text |-> "hello"]>>]>>]
    /\ last.r.ok
    /\ list_items(Store, "conv_A", 10, "", "asc")
          = [ok |-> TRUE,
             items |-> <<[id |-> "item_0", type |-> "message", role |-> "user",
                          content |-> <<[type |-> "text", text |-> "hello"]>>,
                          status |-> "completed"]>>,
             has_more |-> FALSE]

\* Every existing conversation has a thread, and no two share one
OneThreadEach ==
    /\ \A c \in DOMAIN conversations : conversations[c].thread # None
    /\ \A c1, c2 \in DOMAIN conversations :
          c1 # c2 => conversations[c1].thread.tid # conversations[c2].thread.tid

\* get_thread hands out the thread the conversation holds
GetThreadReturnsOwned ==
    (last.op = "get_thread" /\ last.args.conversation_id \in DOMAIN conversations)
        => /\ last.r # None
           /\ last.r.tid = conversations[last.args.conversation_id].thread.tid

\* The thread of a conversation changes only when the conversation is created again
ThreadKeptUntilRecreate ==
    \A c \in DOMAIN conversations \cap DOMAIN conversations' :
        conversations'[c].thread.tid # conversations[c].thread.tid
            => /\ last'.op = "create_conversation"
               /\ last'.r.value.id = c

\* A thread without messages is bound when create returns
CreateBindsThread ==
    (last'.op = "create_conversation" /\ ops' = ops + 1) =>
        LET t == conversations'[last'.r.value.id].thread
        IN  /\ t # None
            /\ t.messages = <<>>
            /\ \A c \in DOMAIN conversations : conversations[c].thread.tid # t.tid

\* C29: every existing conversation owns exactly one thread: get_thread(C) returns
\* the same thread on every call between the create of C and the next delete or
\* re-create of C, no two existing conversations share a thread, and the thread is
\* bound from the moment create returns.
C29_OneThreadPerConversation ==
    /\ [](OneThreadEach /\ GetThreadReturnsOwned)
    /\ [][ThreadKeptUntilRecreate /\ CreateBindsThread]_vars

C29_Witness ==
    /\ last.op = "get_thread"
    /\ last.r # None
    /\ Cardinality(DOMAIN conversations) >= 2
    /\ last.r.tid = conversations[last.args.conversation_id].thread.tid

-----------------------------------------------------------------------------
(* AgentFrameworkExecutor thread registry.  R is the registry: thread_storage, *)
(* agent_threads (with its key order) and the count of objects made.           *)

Registry == [thread_storage |-> thread_storage, agent_threads |-> agent_threads,
             agent_keys |-> agent_keys, fresh |-> fresh]

\* What the registry methods return, tagged with its Python type (str, bool, list);
\* None and a thread are records already
Str(s) == [type |-> "str", value |-> s]

Bool(b) == [type |-> "bool", value |-> b]

List(l) == [type |-> "list", value |-> l]

\* thread_id in thread_ids
Contains(thread_ids, thread_id) == \E k \in 1..Len(thread_ids) : thread_ids[k] = thread_id

\* thread_ids.remove(thread_id): removes the first occurrence
RemoveFirst(thread_ids, thread_id) ==
    LET k == CHOOSE i \in 1..Len(thread_ids) :
                 /\ thread_ids[i] = thread_id
                 /\ \A j \in 1..(i - 1) : thread_ids[j] # thread_id
    IN  SubSeq(thread_ids, 1, k - 1) \o SubSeq(thread_ids, k + 1, Len(thread_ids))

\* if agent_id not in self.agent_threads: self.agent_threads[agent_id] = []
\* self.agent_threads[agent_id].append(thread_id)
ListUnderAgent(R, agent_id, thread_id) ==
    [R EXCEPT !.agent_threads =
                  Put(@, agent_id, IF agent_id \in DOMAIN @ THEN Append(@[agent_id], thread_id)
                                   ELSE <<thread_id>>),
              !.agent_keys = IF agent_id \in DOMAIN R.agent_threads THEN @
                             ELSE Append(@, agent_id)]

\* hex8 is uuid.uuid4().hex[:8]: the uuid is new, its first 8 digits need not be
create_thread(R, agent_id, hex8) ==
    LET thread_id == "thread_" \o hex8
        thread == AgentThread(R.fresh)
        stored == [R EXCEPT !.thread_storage = Put(@, thread_id, thread),
                            !.fresh = @ + 1]
    IN  [R |-> ListUnderAgent(stored, agent_id, thread_id), r |-> Str(thread_id)]

executor_get_thread(R, thread_id) ==
    IF thread_id \in DOMAIN R.thread_storage THEN R.thread_storage[thread_id] ELSE None

list_threads_for_agent(R, agent_id) ==
    List(IF agent_id \in DOMAIN R.agent_threads THEN R.agent_threads[agent_id] ELSE <<>>)

\* The first agent, in the order of agent_threads.items(), that lists thread_id
FirstAgentListing(R, thread_id) ==
    LET hits == SelectSeq(R.agent_keys,
                          LAMBDA a : Contains(R.agent_threads[a], thread_id))
    IN  IF hits = <<>> THEN None ELSE Str(hits[1])

get_agent_for_thread(R, thread_id) == FirstAgentListing(R, thread_id)

delete_thread(R, thread_id) ==
    IF thread_id \notin DOMAIN R.thread_storage THEN [R |-> R, r |-> Bool(FALSE)]
    ELSE LET owner == FirstAgentListing(R, thread_id)
             unlisted == IF owner = None THEN R
                         ELSE [R EXCEPT !.agent_threads[owner.value] =
                                            RemoveFirst(@, thread_id)]
         IN  [R |-> [unlisted EXCEPT !.thread_storage = Del(@, thread_id)], r |-> Bool(TRUE)]

\* AgentThread.deserialize(serialized_state): a thread with the messages of the
\* state, or an exception when the state is not a thread state
AgentThread_deserialize(serialized_state, n) ==
    IF serialized_state.type = "thread_state"
    THEN [ok |-> TRUE, value |-> [tid |-> n, messages |-> serialized_state.messages]]
    ELSE [ok |-> FALSE, error |-> "Exception"]

\* deserialize_thread that lists the thread id before it restores the thread
deserialize_thread_lists_first(R, thread_id, agent_id, serialized_state) ==
    LET thread == AgentThread_deserialize(serialized_state, R.fresh)
        listed == ListUnderAgent(R, agent_id, thread_id)
    IN  IF ~thread.ok THEN [R |-> listed, r |-> Bool(FALSE)]
        ELSE [R |-> [listed EXCEPT !.thread_storage = Put(@, thread_id, thread.value),
                                   !.fresh = @ + 1],
              r |-> Bool(TRUE)]

deserialize_thread(R, thread_id, agent_id, serialized_state) ==
    LET thread == AgentThread_deserialize(serialized_state, R.fresh)
    IN  IF ~thread.ok THEN [R |-> R, r |-> Bool(FALSE)]
        ELSE LET stored == [R EXCEPT !.thread_storage = Put(@, thread_id, thread.value),
                                     !.fresh = @ + 1]
             IN  [R |-> ListUnderAgent(stored, agent_id, thread_id), r |-> Bool(TRUE)]

AgentIds == {"a1", "a2"}

\* Thread ids a caller may pass: the registered and listed ones and one more
ThreadIdArgs ==
    (DOMAIN thread_storage)
    \cup UNION {{agent_threads[a][k] : k \in 1..Len(agent_threads[a])} :
                   a \in DOMAIN agent_threads}
    \cup {"thread_x"}

SerializedStates ==
    { [type |-> "thread_state", messages |-> <<>>],
      [type |-> "garbage"] }

RegistryCall(op, args, res) ==
    /\ ops < MaxRegistryOps
    /\ thread_storage' = res.R.thread_storage
    /\ agent_threads' = res.R.agent_threads
    /\ agent_keys' = res.R.agent_keys
    /\ fresh' = res.R.fresh
    /\ last' = [op |-> op, args |-> args, r |-> res.r]
    /\ ops' = ops + 1
    /\ UNCHANGED <<conversations, conv_keys, item_index, checkpoint_conv_cache, saved,
                   removed, tasks, exec>>

\* The first 8 hex digits a new uuid4 value may have: digits no earlier value began
\* with, or the digits an earlier value began with
Hex8Values == {uuid4(n) : n \in 0..fresh}

CreateThread ==
    \E agent_id \in AgentIds, hex8 \in Hex8Values :
        RegistryCall("create_thread", [agent_id |-> agent_id],
                     create_thread(Registry, agent_id, hex8))

DeserializeThread ==
    \E thread_id \in ThreadIdArgs, agent_id \in AgentIds,
       serialized_state \in SerializedStates :
        RegistryCall("deserialize_thread",
                     [thread_id |-> thread_id, agent_id |-> agent_id,
                      serialized_state |-> serialized_state],
                     deserialize_thread(Registry, thread_id, agent_id, serialized_state))

DeleteThread ==
    \E thread_id \in ThreadIdArgs :
        RegistryCall("delete_thread", [thread_id |-> thread_id],
                     delete_thread(Registry, thread_id))

ExecutorGetThread ==
    \E thread_id \in ThreadIdArgs :
        RegistryCall("executor.get_thread", [thread_id |-> thread_id],
                     [R |-> Registry, r |-> executor_get_thread(Registry, thread_id)])

ListThreadsForAgent ==
    \E agent_id \in AgentIds :
        RegistryCall("list_threads_for_agent", [agent_id |-> agent_id],
                     [R |-> Registry, r |-> list_threads_for_agent(Registry, agent_id)])

GetAgentForThread ==
    \E thread_id \in ThreadIdArgs :
        RegistryCall("get_agent_for_thread", [thread_id |-> thread_id],
                     [R |-> Registry, r |-> get_agent_for_thread(Registry, thread_id)])

RegistryNext ==
    \/ CreateThread
    \/ DeserializeThread
    \/ DeleteThread
    \/ ExecutorGetThread
    \/ ListThreadsForAgent
    \/ GetAgentForThread

RegistrySpec == Init /\ [][RegistryNext]_vars

\* How many times thread_id is listed under agent_id
TimesListed(agent_id, thread_id) ==
    Cardinality({k \in 1..Len(agent_threads[agent_id]) :
                    agent_threads[agent_id][k] = thread_id})

\* C30: thread-registry exclusivity: after any sequence of create_thread,
\* deserialize_thread and delete_thread calls, every thread id in thread_storage is
\* listed under exactly one agent and exactly once, every thread id listed under an
\* agent is in thread_storage, and get_agent_for_thread(t) returns that single agent
\* (None for an unregistered id).
C30_RegistryExclusive ==
    /\ \A t \in DOMAIN thread_storage :
          /\ \E a \in DOMAIN agent_threads :
                /\ TimesListed(a, t) = 1
                /\ \A b \in (DOMAIN agent_threads) \ {a} : TimesListed(b, t) = 0
                /\ get_agent_for_thread(Registry, t) = Str(a)
    /\ \A a \in DOMAIN agent_threads :
          \A k \in 1..Len(agent_threads[a]) : agent_threads[a][k] \in DOMAIN thread_storage
    /\ \A t \in ThreadIdArgs \ (DOMAIN thread_storage) :
          get_agent_for_thread(Registry, t) = None

RegistryAfter == [thread_storage |-> thread_storage', agent_threads |-> agent_threads',
                  agent_keys |-> agent_keys', fresh |-> fresh']

\* thread_id is in some agent's list of R
ListedSomewhere(R, thread_id) ==
    \E a \in DOMAIN R.agent_threads : Contains(R.agent_threads[a], thread_id)

DeleteThreadRemoves ==
    (last'.op = "delete_thread" /\ ops' = ops + 1) =>
        LET t == last'.args.thread_id
        IN  /\ last'.r = Bool(t \in DOMAIN thread_storage)
            /\ last'.r = Bool(TRUE) =>
                  /\ executor_get_thread(RegistryAfter, t) = None
                  /\ ~ListedSomewhere(RegistryAfter, t)
                  /\ get_agent_for_thread(RegistryAfter, t) = None
            /\ last'.r = Bool(FALSE) => RegistryAfter = Registry

\* C31: delete_thread(t) returns true exactly when t was in thread_storage before the
\* call; after it returns true, get_thread(t) is absent, t is in no agent's thread
\* list and get_agent_for_thread(t) is None; when it returns false the registry is
\* unchanged; after any sequence of create_thread, deserialize_thread and delete_thread.
C31_DeleteThreadRemoves == [][DeleteThreadRemoves]_vars

DeserializeThreadContract ==
    (last'.op = "deserialize_thread" /\ ops' = ops + 1) =>
        LET thread_id == last'.args.thread_id
            agent_id == last'.args.agent_id
            restored == AgentThread_deserialize(last'.args.serialized_state, fresh)
        IN  /\ last'.r = Bool(restored.ok)
            /\ ~restored.ok =>
                  /\ thread_storage' = thread_storage
                  /\ agent_threads' = agent_threads
                  /\ agent_keys' = agent_keys
            /\ restored.ok =>
                  /\ executor_get_thread(RegistryAfter, thread_id) = restored.value
                  /\ agent_id \in DOMAIN agent_threads'
                  /\ Contains(agent_threads'[agent_id], thread_id)
                  /\ Contains(list_threads_for_agent(RegistryAfter, agent_id).value, thread_id)

\* C32: deserialize_thread(thread_id, agent_id, state) never raises: when restoring
\* the thread fails it returns false and leaves thread_storage and agent_threads
\* unchanged; when it succeeds it returns true, the thread is retrievable by
\* get_thread(thread_id) and thread_id is listed under agent_id.
C32_DeserializeThreadContract == [][DeserializeThreadContract]_vars

C32_Witness ==
    /\ last.op = "deserialize_thread"
    /\ last.r = Bool(FALSE)
    /\ last.args.thread_id \in DOMAIN thread_storage
    /\ ListedSomewhere(Registry, last.args.thread_id)

-----------------------------------------------------------------------------
(* Execution requests, continued *)

\* C33: an execution request for an entity that exists but is classified as neither
\* agent nor workflow yields exactly one error event carrying the entity id, as the
\* only and last event of the stream; no engine streaming call is started for it.
\* (The wire mapper converts the event; a mapper that fails is outside the claim.)
C33_UnsupportedTypeOneError ==
    ("type" \in exec.raised /\ "mapper" \notin exec.raised) =>
        /\ exec.runs = 0
        /\ UpdateEvents = <<>>
        /\ Len(exec.out) <= 1
        /\ exec.pc = "Done" =>
              /\ Len(exec.out) = 1
              /\ RawOut[1].type = "error"
              /\ "entity_id" \in DOMAIN RawOut[1]
              /\ RawOut[1].entity_id = exec.entity_id
              /\ RawOut[1].message = "type"

C33_Witness ==
    /\ exec.api = "execute_streaming"
    /\ exec.pc = "Done"
    /\ exec.entity_id = "tool1"
    /\ exec.type = "tool"
    /\ exec.raised = {"type"}
    /\ Len(exec.out) = 1
    /\ exec.out[1].type = "openai"
    /\ exec.out[1].of.entity_id = "tool1"

\* The engine's update stream is finite and the consumer keeps consuming: every step
\* of the request that can be taken is taken
ExecLiveSpec ==
    /\ ExecSpec
    /\ WF_vars(ExecValidate) /\ WF_vars(ExecResolve) /\ WF_vars(ExecStart)
    /\ WF_vars(ExecEngineEnd) /\ WF_vars(ExecFinalFlush) /\ WF_vars(ExecClose)
    /\ WF_vars(ExecYield)

\* The state of the request's state machine a position of the code belongs to
Phase(pc) ==
    IF pc = "Idle" THEN 0
    ELSE IF pc \in {"Validating", "Resolving"} THEN 1
    ELSE IF pc \in {"Starting", "Streaming", "Flushing", "Closing"} THEN 2
    ELSE 3

\* Resolving succeeded: the entity exists, has an object and is an agent or a workflow
ResolvingSucceeded ==
    /\ exec.entity_id \in DOMAIN EntityTypes
    /\ exec.type \in {"agent", "workflow"}
    /\ exec.raised \cap {"lookup", "object", "type"} = {}
    /\ exec.scope # "none"

LifecycleStep ==
    /\ Phase(exec'.pc) >= Phase(exec.pc)
    /\ Phase(exec.pc) = 3 => (exec'.pc = exec.pc /\ exec'.out = exec.out)
    /\ exec'.runs \in {exec.runs, exec.runs + 1}
    /\ exec'.runs # exec.runs => (exec.pc = "Starting" /\ exec'.pc = "Streaming")

\* C34: each execution request follows Idle -> Resolving -> Streaming -> {Completed |
\* Failed} and reaches exactly one terminal state: with a finite engine stream and a
\* consumer that keeps consuming the output stream ends after finitely many events,
\* Completed (no error event emitted) or Failed (an error event emitted); the engine's
\* streaming call is started at most once per request and only after Resolving
\* succeeded.
C34_RequestLifecycle ==
    /\ [][LifecycleStep]_vars
    /\ [](exec.runs <= 1 /\ (exec.runs = 1 => ResolvingSucceeded))
    /\ [](exec.pc # "Raised")
    /\ (exec.pc # "Idle") ~> (exec.pc = "Done")

C34_Witness ==
    /\ exec.pc = "Done"
    /\ exec.runs = 1
    /\ ErrorEvents = <<>>
    /\ Len(UpdateEvents) = MaxUpdates
    /\ ~exec.abandoned

\* A request that ended Failed after its engine had been started
C34_WitnessFailed ==
    /\ exec.pc = "Done"
    /\ exec.runs = 1
    /\ Len(ErrorEvents) >= 1
    /\ Len(UpdateEvents) >= 1

-----------------------------------------------------------------------------
(* _execute_agent: the thread its call of run_stream is made with *)

\* request.extra_body: None, a dict (what AgentFrameworkRequest declares) or an
\* object with a thread_id attribute
ExtraBody(kind, thread_id) == [kind |-> kind, thread_id |-> thread_id]

\* hasattr(request.extra_body, "thread_id"): a dict has keys, not attributes
HasThreadIdAttr(extra_body) == extra_body.kind = "object"

\* The thread argument of agent.run_stream (None: run_stream is called without one)
run_stream_thread(R, extra_body) ==
    IF extra_body # None /\ HasThreadIdAttr(extra_body) /\ extra_body.thread_id # ""
    THEN executor_get_thread(R, extra_body.thread_id)
    ELSE None

ExtraBodies ==
    {None} \cup {ExtraBody(kind, t) : kind \in {"dict", "object"},
                                      t \in ThreadIdArgs \cup {""}}

\* An agent request reaches the call of run_stream
ExecuteAgent ==
    \E extra_body \in ExtraBodies :
        RegistryCall("_execute_agent", [extra_body |-> extra_body],
                     [R |-> Registry, r |-> run_stream_thread(Registry, extra_body)])

AgentThreadNext ==
    \/ CreateThread
    \/ DeserializeThread
    \/ DeleteThread
    \/ ExecuteAgent

AgentThreadSpec == Init /\ [][AgentThreadNext]_vars

\* The thread id the request references, "" when it references none
ReferencedThreadId(extra_body) ==
    IF extra_body = None THEN "" ELSE extra_body.thread_id

\* C35: when an agent execution request references a thread id, the engine's streaming
\* call is made with an execution thread bound to that id: the registered thread when
\* the id is known to the registry, otherwise a newly created one; the engine is run
\* without a thread only when the request references none.
C35_ThreadBoundToReference ==
    last.op = "_execute_agent" =>
        LET t == ReferencedThreadId(last.args.extra_body)
        IN  /\ t # "" => (last.r # None /\ executor_get_thread(Registry, t) = last.r)
            /\ t = "" => last.r = None

\* The one case in which the registered thread is used: an extra_body that has the
\* thread id as an attribute and an id the registry knows
C35_RegisteredThreadOfObject ==
    (/\ last.op = "_execute_agent"
     /\ last.args.extra_body # None
     /\ HasThreadIdAttr(last.args.extra_body)
     /\ last.args.extra_body.thread_id \in DOMAIN thread_storage)
        => last.r = thread_storage[last.args.extra_body.thread_id]

-----------------------------------------------------------------------------
(* list_items: the items derived from the thread's message history *)

\* What identifies an item in a listing: its id, its type, and the call it is about
\* or, for a Message, the kinds of its content parts
ItemShape(it) ==
    [id |-> it.id, type |-> it.type,
     of |-> IF it.type = "message" THEN [k \in 1..Len(it.content) |-> it.content[k].type]
            ELSE <<it.call_id>>]

\* The shapes the thread message at position i is to yield
ExpectedShapes(msg, i) ==
    LET item_id == "item_" \o ToString(i)
        parts == msg.contents
        shown == SelectSeq(parts, LAMBDA p : p.type \in {"text", "data"})
        kind(p) == IF p.type = "text" THEN "text"
                   ELSE IF startswith_image(p.media_type) THEN "input_image" ELSE "input_file"
        calls == SelectSeq(parts, LAMBDA p : p.type = "function_call"
                                               /\ p.call_id # "" /\ p.name # "")
        outputs == SelectSeq(parts, LAMBDA p : p.type = "function_result" /\ p.call_id # "")
    IN  (IF shown = <<>> THEN <<>>
         ELSE <<[id |-> item_id, type |-> "message",
                 of |-> [k \in 1..Len(shown) |-> kind(shown[k])]]>>)
        \o [k \in 1..Len(calls) |->
              [id |-> item_id \o "_call_" \o calls[k].call_id, type |-> "function_call",
               of |-> <<calls[k].call_id>>]]
        \o [k \in 1..Len(outputs) |->
              [id |-> item_id \o "_result_" \o outputs[k].call_id,
               type |-> "function_call_output", of |-> <<outputs[k].call_id>>]]

\* The thread-derived items of the whole listing of conversation c of store S
ListedThreadItems(S, c) == ThreadDerived(list_items(S, c, 100, "", "asc").items)

SplitAsStated ==
    \A c \in DOMAIN conversations :
        LET msgs == conversations[c].thread.messages
            listed == ListedThreadItems(Store, c)
        IN  [k \in 1..Len(listed) |-> ItemShape(listed[k])]
              = Flatten([i \in 1..Len(msgs) |-> ExpectedShapes(msgs[i], i - 1)])

\* Appending messages or checkpoints leaves the items derived from the earlier messages
\* where they are
SplitStableUnderAppends ==
    \A c \in DOMAIN conversations \cap DOMAIN conversations' :
        LET old == conversations[c].thread.messages
            new == conversations'[c].thread.messages
            before == ListedThreadItems(Store, c)
            after == ListedThreadItems(StoreAfter, c)
        IN  (conversations'[c].thread.tid = conversations[c].thread.tid
               /\ Len(new) >= Len(old) /\ SubSeq(new, 1, Len(old)) = old)
                => /\ Len(after) >= Len(before)
                   /\ SubSeq(after, 1, Len(before)) = before
                   /\ SubSeq(list_items(StoreAfter, c, 100, "", "asc").items, 1, Len(after))
                         = after

\* C36: in list_items the thread message at position i yields, in this order, one
\* Message item with id item_<i> iff it carries at least one text or data part (a data
\* part being an image iff its media type starts with image/, otherwise a file), then
\* one function-call item per function-call part that has both call_id and name, then
\* one function-call-output item per function-result part that has a call_id; a
\* message with only function parts yields no Message item; the ids and the order of
\* the items derived from a message do not change when later messages or checkpoints
\* are appended.
C36_ThreadHistorySplit == []SplitAsStated /\ [][SplitStableUnderAppends]_vars

C36_Witness ==
    \E c \in DOMAIN conversations :
        LET msgs == conversations[c].thread.messages
            listed == ListedThreadItems(Store, c)
        IN  /\ Len(msgs) = 2
            /\ msgs[1].role = "assistant" /\ Len(msgs[1].contents) = 4
            /\ msgs[2].role = "tool" /\ Len(msgs[2].contents) = 3
            /\ [k \in 1..Len(listed) |-> listed[k].id]
                  = <<"item_1", "item_1_call_c3", "item_1_result_c3">>
            /\ listed[1].content[1].type = "input_file"

-----------------------------------------------------------------------------
(* The workflow driver's choice of the start executor's input type.  A      *)
(* declared type is a class or a generic alias: its name and what           *)
(* typing.get_origin answers for it ("none" for a plain class).             *)

DeclaredType(name, origin) == [name |-> name, origin |-> origin]

str == DeclaredType("str", "none")

dict == DeclaredType("dict", "none")

get_origin(message_type) == message_type.origin

\* message_type is candidate or get_origin(message_type) is candidate
MatchesCandidate(message_type, candidate) ==
    message_type = candidate \/ get_origin(message_type) = candidate.name

\* A selection that takes the first declared type that is one of the preferred ones
select_primary_input_type_first_match(message_types) ==
    IF message_types = <<>> THEN None
    ELSE LET hits == SelectSeq(message_types,
                               LAMBDA mt : MatchesCandidate(mt, str) \/ MatchesCandidate(mt, dict))
         IN  IF hits = <<>> THEN message_types[1]
             ELSE IF MatchesCandidate(hits[1], str) THEN str ELSE dict

select_primary_input_type(message_types) ==
    IF message_types = <<>> THEN None
    ELSE IF \E k \in 1..Len(message_types) : MatchesCandidate(message_types[k], str) THEN str
    ELSE IF \E k \in 1..Len(message_types) : MatchesCandidate(message_types[k], dict) THEN dict
    ELSE message_types[1]

\* parse_input_for_type(raw_input, input_type): the payload converted to the type, or
\* an exception; which payloads it rejects is the parser's matter (parse_raises)
parse_input_for_type(raw_input, input_type, parse_raises) ==
    IF parse_raises THEN [ok |-> FALSE, error |-> "Exception"]
    ELSE [ok |-> TRUE, value |-> [type |-> "parsed", raw |-> raw_input, as |-> input_type.name]]

\* A payload handed on as it came
Unparsed(raw_input) == [type |-> "raw", raw |-> raw_input]

\* workflow.get_start_executor() and its declared input types: input_types when it
\* is non-empty (None and [] alike are <<>> here), else the keys of _handlers when
\* the executor has that attribute and it is a dict
get_start_executor_message_types(workflow) ==
    IF ~workflow.has_start_executor THEN <<>>
    ELSE IF workflow.input_types # <<>> THEN workflow.input_types
    ELSE IF workflow.handlers # None /\ workflow.handlers.isdict THEN workflow.handlers.keys
    ELSE <<>>

\* parse_raises: whether parse_input_for_type raises on this payload and type
parse_raw_workflow_input(workflow, raw_input, parse_raises) ==
    LET message_types == get_start_executor_message_types(workflow)
        input_type == select_primary_input_type(message_types)
        parsed == parse_input_for_type(raw_input, input_type, parse_raises)
    IN  IF ~workflow.has_start_executor THEN Unparsed(raw_input)
        ELSE IF message_types = <<>> THEN Unparsed(raw_input)
        ELSE IF input_type = None THEN Unparsed(raw_input)
        ELSE IF parsed.ok THEN parsed.value
        ELSE Unparsed(raw_input)

DeclaredTypes ==
    { str, dict, DeclaredType("StrAlias[int]", "str"), DeclaredType("dict[str, Any]", "dict"),
      DeclaredType("int", "none"), DeclaredType("list[str]", "list") }

RECURSIVE SeqsUpTo(_, _)
SeqsUpTo(S, n) ==
    IF n = 0 THEN {<<>>}
    ELSE LET shorter == SeqsUpTo(S, n - 1)
         IN  shorter \cup {Append(q, x) : q \in shorter, x \in S}

\* start_executor._handlers: no such attribute, not a dict, or a dict keyed by type
Handlers ==
    { None, [isdict |-> FALSE],
      [isdict |-> TRUE, keys |-> <<>>],
      [isdict |-> TRUE, keys |-> <<DeclaredType("int", "none"), str>>],
      [isdict |-> TRUE, keys |-> <<DeclaredType("list[str]", "list")>>] }

Workflows ==
    {[has_start_executor |-> TRUE, input_types |-> mt, handlers |-> h] :
        mt \in SeqsUpTo(DeclaredTypes, MaxTypes), h \in Handlers}
    \cup {[has_start_executor |-> FALSE, input_types |-> <<>>, handlers |-> None]}

RawInputs == {"hello", "{}"}

\* A workflow request with its payload is at hand
InputInit ==
    /\ \E workflow \in Workflows, raw_input \in RawInputs, parse_raises \in BOOLEAN :
          last = [op |-> "request",
                  args |-> [workflow |-> workflow, raw_input |-> raw_input,
                            parse_raises |-> parse_raises,
                            message_types |-> get_start_executor_message_types(workflow)]]
    /\ conversations = EmptyMap
    /\ conv_keys = <<>>
    /\ item_index = EmptyMap
    /\ fresh = 0
    /\ checkpoint_conv_cache = [m \in Managers |-> EmptyMap]
    /\ ops = 0
    /\ saved = [e \in Entities |-> <<>>]
    /\ removed = EmptyMap
    /\ tasks = [t \in Tasks |-> [pc |-> "idle"]]
    /\ exec = ExecIdle
    /\ thread_storage = EmptyMap
    /\ agent_threads = EmptyMap
    /\ agent_keys = <<>>

InputCall(op, r) ==
    /\ last.op = "request"
    /\ last' = [op |-> op, args |-> last.args, r |-> r]
    /\ ops' = ops + 1
    /\ UNCHANGED <<conversations, conv_keys, item_index, fresh, checkpoint_conv_cache, saved,
                   removed, tasks, exec, registry_vars>>

SelectPrimaryInputType ==
    InputCall("_select_primary_input_type",
              select_primary_input_type(last.args.message_types))

ParseRawWorkflowInput ==
    InputCall("_parse_raw_workflow_input",
              parse_raw_workflow_input(last.args.workflow, last.args.raw_input,
                                       last.args.parse_raises))

InputNext ==
    \/ SelectPrimaryInputType
    \/ ParseRawWorkflowInput

InputSpec == InputInit /\ [][InputNext]_vars

\* string, or a generic whose origin is string
IsStringType(mt) == mt.name = "str" \/ mt.origin = "str"

\* mapping, or a generic whose origin is mapping
IsMappingType(mt) == mt.name = "dict" \/ mt.origin = "dict"

\* C37: _select_primary_input_type returns, for a non-empty list of declared types,
\* string if string (or a generic whose origin is string) occurs anywhere in the list,
\* else mapping if mapping (or a generic whose origin is mapping) occurs anywhere, else
\* the first declared type; for the empty list it returns none, and the raw payload
\* is then passed to the engine unparsed.  The list is what the start executor
\* declares: its input_types, or the keys of its handlers when it has none; a payload
\* the parser rejects for the chosen type is passed on unparsed as well.
C37_PrimaryInputType ==
    LET types == last.args.message_types
        anywhere(P(_)) == \E k \in 1..Len(types) : P(types[k])
    IN  /\ last.op = "_select_primary_input_type" =>
              IF types = <<>> THEN last.r = None
              ELSE IF anywhere(IsStringType) THEN last.r = str
              ELSE IF anywhere(IsMappingType) THEN last.r = dict
              ELSE last.r = types[1]
        /\ last.op = "_parse_raw_workflow_input" =>
              IF types = <<>> \/ last.args.parse_raises
              THEN last.r = [type |-> "raw", raw |-> last.args.raw_input]
              ELSE /\ last.r.type = "parsed"
                   /\ last.r.raw = last.args.raw_input
                   /\ last.r.as = (IF anywhere(IsStringType) THEN "str"
                                   ELSE IF anywhere(IsMappingType) THEN "dict"
                                   ELSE types[1].name)

C37_Witness ==
    /\ last.op = "_select_primary_input_type"
    /\ last.args.message_types
          = <<DeclaredType("int", "none"), DeclaredType("dict[str, Any]", "dict"), str>>
    /\ last.r = str

-----------------------------------------------------------------------------
(* The checkpoint manager and the items of the conversations of its store *)

ManagerOps ==
    {"get_or_create_checkpoint_conversation", "save_checkpoint", "load_checkpoint",
     "list_checkpoints"}

\* Every item conversation c lists in store S is still listed, in place, in store T
KeepsItems(S, T, c) ==
    /\ c \in DOMAIN T.conversations
    /\ LET before == AllItems(S, c)
           after == AllItems(T, c)
       IN  /\ Len(after) >= Len(before)
           /\ SubSeq(after, 1, Len(before)) = before

ManagerKeepsItems ==
    (last'.op \in ManagerOps /\ ops' = ops + 1) =>
        \A c \in DOMAIN conversations : KeepsItems(Store, StoreAfter, c)

\* C38: get_or_create_checkpoint_conversation(e), and therefore save, load and list for
\* e, never removes or replaces items of an existing conversation: for every sequence
\* of store and manager operations (a conversation that already exists under the id
\* checkpoints_<e> without the marking metadata, a container whose metadata was
\* replaced, a second manager over the same store), every item listed in any
\* conversation before the call is still listed in it after the call.
C38_ManagerKeepsItems == [][ManagerKeepsItems]_vars

-----------------------------------------------------------------------------
(* The checkpoints of distinct entities *)

SavedSet(e) == {saved[e][k] : k \in 1..Len(saved[e])}

ContainerOf(m, e) ==
    get_or_create_checkpoint_conversation(Store, checkpoint_conv_cache[m], e).r

\* What list and load return for b was saved for b, so a checkpoint saved for
\* another entity only is not among it
ReturnsOwnCheckpoints ==
    \A b \in Entities, m \in Managers :
        /\ LET listed == list_checkpoints(Store, checkpoint_conv_cache[m], b, "").r.value
           IN  \A k \in 1..Len(listed) : listed[k] \in SavedSet(b)
        /\ \A id \in CheckpointIds :
              Loaded(m, b, id) # None => Loaded(m, b, id) \in SavedSet(b)
        /\ \A a \in Entities \ {b} : \A cp \in SavedSet(a) \ SavedSet(b) :
              /\ Loaded(m, b, cp.checkpoint_id) # cp
              /\ (last.args.entity_id = b
                    /\ last.op \in {"load_checkpoint", "storage.load_checkpoint"})
                     => last.r # cp
              /\ (last.args.entity_id = b
                    /\ last.op \in {"list_checkpoints", "storage.list_checkpoints"})
                     => \A k \in 1..Len(last.r.value) : last.r.value[k] # cp

DistinctContainers ==
    \A a \in Entities : \A b \in Entities \ {a} : \A m \in Managers, n \in Managers :
        ContainerOf(m, a) # ContainerOf(n, b)

\* A call for b leaves what the container of every other entity lists as it was
OtherContainersUntouched ==
    ops' = ops + 1 =>
        \A a \in Entities \ {last'.args.entity_id}, m \in Managers :
            LET c == ContainerOf(m, a)
            IN  c \in DOMAIN conversations =>
                   /\ c \in DOMAIN conversations'
                   /\ AllItems(StoreAfter, c) = AllItems(Store, c)

\* C39: for distinct entities a and b and any sequence of manager and adapter
\* operations, a checkpoint saved for a is never returned by list(b) or load(b, id),
\* a and b resolve to distinct container conversations, and operations on b leave
\* the items of a's container unchanged.
C39_EntityIsolation ==
    [](ReturnsOwnCheckpoints /\ DistinctContainers) /\ [][OtherContainersUntouched]_vars

C39_Witness ==
    /\ saved["wf1"] # <<>>
    /\ saved["wf2"] # <<>>
    /\ SavedSet("wf1") \cap SavedSet("wf2") = {}
    /\ last.op = "list_checkpoints"
    /\ last.args.workflow_id = ""
    /\ last.r.value = saved[last.args.entity_id]
    /\ \E cp \in SavedSet("wf1") : Loaded("m2", "wf2", cp.checkpoint_id) = None

-----------------------------------------------------------------------------
(* The read operations of the checkpoint manager *)

ReadOps == {"load_checkpoint", "list_checkpoints"}

\* A load or list for e changes the store by at most the new, empty container of e
ReadsOnlyCreateContainer ==
    (last'.op \in ReadOps /\ ops' = ops + 1) =>
        LET e == last'.args.entity_id
            m == last'.args.manager
            c == ContainerId(e)
        IN  /\ \A d \in DOMAIN conversations :
                  /\ d \in DOMAIN conversations'
                  /\ AllItems(StoreAfter, d) = AllItems(Store, d)
            /\ (DOMAIN conversations') \ (DOMAIN conversations) \subseteq {c}
            /\ c \notin DOMAIN conversations =>
                  (c \in DOMAIN conversations' =>
                      /\ AllItems(StoreAfter, c) = <<>>
                      /\ checkpoint_conv_cache'[m][e] = c
                      /\ Cardinality(DOMAIN conversations')
                            = Cardinality(DOMAIN conversations) + 1)

\* C40: load(e, id) and list(e) of the checkpoint manager add, remove and modify no
\* item in any conversation; their only possible effect on the store is the creation
\* (and caching) of the empty container checkpoints_<e> of an entity that has none,
\* after which the store holds one more conversation.
C40_ReadsOnlyCreateContainer == [][ReadsOnlyCreateContainer]_vars

====
